---- MODULE Spec2Model ----
(***************************************************************************)
(* A model of the SOP-Navigator document structure inference engine        *)
(* (src/process_sop_with_images.py), of the batch driver                   *)
(* (src/batch_process_annotated_docs.py), of the nested JSON conversion    *)
(* (src/word_to_json.py) and of the CSV export (src/json_to_csv.py).       *)
(*                                                                         *)
(* Text is a sequence of one-character strings, so that the regular        *)
(* expressions and substring tests of the code are computed, character by  *)
(* character, by the operators below.  A style name is a sequence of       *)
(* tokens: the words "Heading", "标题", "H", "Normal" are atoms, digits and *)
(* blanks are characters.  A character outside ASCII is written as the    *)
(* token "uXXXX" of its code point (a style atom as the tokens of its      *)
(* characters run together); the comment at the end of the line gives the  *)
(* original text.  Paragraph indices and table ordinals are 1-based here   *)
(* (0-based in the code); caption_index = 0 stands for None.               *)
(*                                                                         *)
(* Spec runs process_sop_document_with_images on every document of up to   *)
(* MaxBlocks blocks over BlockAlphabet; SpecClassify runs the heading      *)
(* classifier alone on numbered texts of up to MaxComponents components;   *)
(* SpecClean runs clean_duplicate_captions twice on chunks of up to        *)
(* MaxLines lines of prose; SpecTable runs table_to_markdown on tables of  *)
(* up to MaxRows rows and MaxCols columns; SpecBatch runs the batch loop   *)
(* on directories of up to MaxFiles files; SpecCsv runs iter_chunks on     *)
(* section trees with up to MaxChildren children per node; SpecJson runs   *)
(* docx_to_nested_json on bodies of up to MaxItems items.  The programs    *)
(* share one tuple of variables; each leaves the variables of the others   *)
(* unchanged.                                                              *)
(***************************************************************************)
EXTENDS Integers, Sequences, FiniteSets, TLC

VARIABLES
    doc,                     \* the block stream of the document (iter_block_items)
    doc_name,                \* base name of the .docx file
    pc,                      \* position in process_sop_document_with_images
    image_info,              \* records of extract_images_with_captions_from_docx
    ordered_images,          \* images in document order, with used / forced_section
    caption_set,             \* captions recorded for the images
    table_position_section,  \* pre-pass: table ordinal -> heading path
    paragraph_section_map,   \* paragraph index -> heading path
    blk,                     \* main pass: index of the next block
    heading_stack,           \* main pass: open headings (title, level)
    heading_counters,        \* main pass: per-level counters
    current_content_buffer,  \* main pass: lines of the open section
    pending_images,          \* main pass: file names not yet handed to a chunk
    chunks,                  \* emitted chunks
    heading_log,             \* the "处理标题" lines printed by the main pass
    table_counter_map,       \* leaf title -> number of tables seen
    result,                  \* return value of process_sop_document_with_images
    cl_par,                  \* classifier harness: the paragraph classified
    cl_res,                  \* classifier harness: its classification
    docx_table,              \* table_to_markdown: the cell grid of the table
    table_markdown,          \* table_to_markdown: the text returned
    all_files,               \* batch driver: the documents found, each with its outcome
    file_no,                 \* batch driver: number of the next document (i)
    success_count,           \* batch driver
    error_count,             \* batch driver
    processed_files,         \* batch driver: names of the documents that succeeded
    attempted,               \* batch driver: the "处理文档" lines printed
    json_root,               \* iter_chunks: the JSON tree walked
    csv_rows,                \* iter_chunks: the rows yielded
    document_body,           \* docx_to_nested_json: the blocks docx2python read
    document_lines,          \* docx_to_nested_json: document_text.split('\n')
    heading_nodes,           \* docx_to_nested_json: the HeadingNode objects made
    sections                 \* docx_to_nested_json: the top-level nodes

vars == << doc, doc_name, pc, image_info, ordered_images, caption_set,
           table_position_section, paragraph_section_map, blk, heading_stack,
           heading_counters, current_content_buffer, pending_images, chunks,
           heading_log, table_counter_map, result, cl_par, cl_res,
           docx_table, table_markdown, all_files, file_no, success_count, error_count,
           processed_files, attempted, json_root, csv_rows, document_body,
           document_lines, heading_nodes, sections >>

\* the variables of the programs beside process_sop_document_with_images
table_vars == << docx_table, table_markdown >>

batch_vars == << all_files, file_no, success_count, error_count, processed_files,
                attempted >>

csv_vars == << json_root, csv_rows >>

json_vars == << document_body, document_lines, heading_nodes, sections >>

other_programs == << table_vars, batch_vars, csv_vars, json_vars >>

\* the variables of process_sop_document_with_images that docx_to_nested_json
\* has no counterpart of
pipeline_only == << doc, doc_name, image_info, ordered_images, caption_set,
                   table_position_section, paragraph_section_map,
                   heading_counters, current_content_buffer, pending_images, chunks,
                   heading_log, table_counter_map, result, cl_par, cl_res >>

\* what the variables of a program hold while another one runs
IdleTable == docx_table = <<>> /\ table_markdown = <<>>

IdleBatch ==
    /\ all_files = <<>>
    /\ file_no = 1
    /\ success_count = 0
    /\ error_count = 0
    /\ processed_files = <<>>
    /\ attempted = <<>>

IdleCsv == json_root = <<>> /\ csv_rows = <<>>

IdleJson == document_body = <<>> /\ document_lines = <<>> /\ heading_nodes = <<>> /\ sections = <<>>

IdlePipeline ==
    /\ doc = <<>>
    /\ doc_name = <<>>
    /\ image_info = <<>>
    /\ ordered_images = <<>>
    /\ caption_set = {}
    /\ table_position_section = <<>>
    /\ paragraph_section_map = <<>>
    /\ heading_counters = <<>>
    /\ current_content_buffer = <<>>
    /\ pending_images = <<>>
    /\ chunks = <<>>
    /\ heading_log = <<>>
    /\ table_counter_map = <<>>
    /\ result = "none"

-----------------------------------------------------------------------------
(* Characters and strings                                                   *)

Digits == {"0", "1", "2", "3", "4", "5", "6", "7", "8", "9"}

IsDigit(c) == c \in Digits

\* the characters \s matches
WhiteSpace == {" ", "\t", "\n"}

DigitVal(c) ==
    CASE c = "0" -> 0 [] c = "1" -> 1 [] c = "2" -> 2 [] c = "3" -> 3
      [] c = "4" -> 4 [] c = "5" -> 5 [] c = "6" -> 6 [] c = "7" -> 7
      [] c = "8" -> 8 [] c = "9" -> 9

DigitChar(n) ==
    CASE n = 0 -> "0" [] n = 1 -> "1" [] n = 2 -> "2" [] n = 3 -> "3"
      [] n = 4 -> "4" [] n = 5 -> "5" [] n = 6 -> "6" [] n = 7 -> "7"
      [] n = 8 -> "8" [] n = 9 -> "9"

Min(a, b) == IF a <= b THEN a ELSE b

Abs(n) == IF n < 0 THEN -n ELSE n

\* s[a..] (1-based), empty when a > Len(s)
Drop(s, a) == SubSeq(s, a, Len(s))

\* s[..n]
Take(s, n) == SubSeq(s, 1, Min(n, Len(s)))

StartsWith(s, p) == Len(p) <= Len(s) /\ SubSeq(s, 1, Len(p)) = p

EndsWith(s, p) == Len(p) <= Len(s) /\ SubSeq(s, Len(s) - Len(p) + 1, Len(s)) = p

\* p occurs in s at position i
OccursAt(s, p, i) == i + Len(p) - 1 <= Len(s) /\ SubSeq(s, i, i + Len(p) - 1) = p

\* Python's  p in s
Contains(s, p) == \E i \in 1..(Len(s) - Len(p) + 1) : OccursAt(s, p, i)

\* Python's  s.find(p) + 1  (0 when p does not occur)
Find(s, p) ==
    IF Contains(s, p)
    THEN CHOOSE i \in 1..(Len(s) - Len(p) + 1) :
             OccursAt(s, p, i) /\ \A j \in 1..(i - 1) : ~OccursAt(s, p, j)
    ELSE 0

RECURSIVE LStrip(_)
LStrip(s) == IF s /= <<>> /\ Head(s) \in WhiteSpace THEN LStrip(Tail(s)) ELSE s

RECURSIVE RStrip(_)
RStrip(s) ==
    IF s /= <<>> /\ s[Len(s)] \in WhiteSpace THEN RStrip(SubSeq(s, 1, Len(s) - 1)) ELSE s

\* Python's  s.strip()
Strip(s) == RStrip(LStrip(s))

\* int(s) for a string of digits
RECURSIVE IntOf(_)
IntOf(s) == IF s = <<>> THEN 0 ELSE 10 * IntOf(SubSeq(s, 1, Len(s) - 1)) + DigitVal(s[Len(s)])

\* str(n) for n >= 0
RECURSIVE StrOf(_)
StrOf(n) == IF n < 10 THEN <<DigitChar(n)>> ELSE Append(StrOf(n \div 10), DigitChar(n % 10))

\* sep.join(parts)
RECURSIVE Join(_, _)
Join(parts, sep) ==
    IF parts = <<>> THEN <<>>
    ELSE IF Len(parts) = 1 THEN parts[1]
    ELSE parts[1] \o sep \o Join(Tail(parts), sep)

\* s.split(c) for a single character c
RECURSIVE SplitAt(_, _)
SplitAt(s, c) ==
    IF \E i \in 1..Len(s) : s[i] = c
    THEN LET i == CHOOSE k \in 1..Len(s) : s[k] = c /\ \A j \in 1..(k - 1) : s[j] /= c
         IN  <<SubSeq(s, 1, i - 1)>> \o SplitAt(Drop(s, i + 1), c)
    ELSE <<s>>

\* s.split(p) for a non-empty string p
RECURSIVE SplitOn(_, _)
SplitOn(s, p) ==
    IF Contains(s, p)
    THEN LET i == Find(s, p)
         IN  <<SubSeq(s, 1, i - 1)>> \o SplitOn(Drop(s, i + Len(p)), p)
    ELSE <<s>>

\* s.replace(p, r) for a non-empty string p
RECURSIVE Replace(_, _, _)
Replace(s, p, r) ==
    IF Contains(s, p)
    THEN LET i == Find(s, p)
         IN  SubSeq(s, 1, i - 1) \o r \o Replace(Drop(s, i + Len(p)), p, r)
    ELSE s

\* length of the run of digits of s that starts at position i
RECURSIVE DigitRun(_, _)
DigitRun(s, i) == IF i <= Len(s) /\ IsDigit(s[i]) THEN 1 + DigitRun(s, i + 1) ELSE 0

\* length of the run of characters of cls that starts at position i
RECURSIVE ClassRun(_, _, _)
ClassRun(s, cls, i) == IF i <= Len(s) /\ s[i] \in cls THEN 1 + ClassRun(s, cls, i + 1) ELSE 0

\* end of the greedy (?:\.\d+)* that continues a match ending at position e
RECURSIVE DottedFrom(_, _)
DottedFrom(s, e) ==
    IF e + 1 <= Len(s) /\ s[e + 1] = "." /\ DigitRun(s, e + 2) > 0
    THEN DottedFrom(s, e + 1 + DigitRun(s, e + 2))
    ELSE e

\* length of the match of  ^\d+(?:\.\d+)*  (0: no match)
DottedPrefixLen(s) == IF DigitRun(s, 1) = 0 THEN 0 ELSE DottedFrom(s, DigitRun(s, 1))

\* length of the match of  ^\d+(?:\.\d+)+  (0: no match)
MultiLevelLen(s) ==
    LET n == DottedPrefixLen(s) IN IF n > DigitRun(s, 1) THEN n ELSE 0

\* s.count(c)
RECURSIVE CountChar(_, _)
CountChar(s, c) ==
    IF s = <<>> THEN 0 ELSE (IF Head(s) = c THEN 1 ELSE 0) + CountChar(Tail(s), c)

\* re.match(r'^\d+\)', s)
MatchesNumParen(s) ==
    LET n == DigitRun(s, 1) IN n > 0 /\ n < Len(s) /\ s[n + 1] = ")"

\* re.match(r'^\d+\.', s), which is also  re.match(r'^\d+\.\s*', s)
MatchesNumDot(s) ==
    LET n == DigitRun(s, 1) IN n > 0 /\ n < Len(s) /\ s[n + 1] = "."

\* re.sub(r'^\d+(?:\.\d+)*[\.\)]\s*', '', s): the greedy dotted numeral is
\* followed by '.' or ')', or the regex backtracks over its last component
StripNumbering(s) ==
    LET n == DottedPrefixLen(s)
        d == DigitRun(s, 1)
    IN  IF n = 0 THEN s
        ELSE IF n < Len(s) /\ s[n + 1] \in {".", ")"}
             THEN Drop(s, n + 2 + ClassRun(s, WhiteSpace, n + 2))
        ELSE IF n > d
             THEN LET q == CHOOSE j \in 1..n : s[j] = "." /\ \A m \in (j + 1)..n : s[m] /= "."
                  IN  Drop(s, q + 1)
        ELSE s

-----------------------------------------------------------------------------
(* Heading classifier: is_heading_paragraph, get_heading_level              *)

\* A paragraph block.  img: number of embedded pictures (a:blip) in its runs;
\* alt: the non-empty docPr title / descr strings of its drawings.
Para(style, text, img, alt) ==
    [kind |-> "p", style |-> style, text |-> text, img |-> img, alt |-> alt]

\* A table block: rows of cells, each cell a text.
Tbl(rows) == [kind |-> "t", rows |-> rows]

TOP_LEVEL_KEYWORDS ==
    { <<"u76EE", "u7684">>,   \* 目的
      <<"u9002", "u7528", "u8303", "u56F4">>,   \* 适用范围
      <<"u5B89", "u5168", "u548C", "u73AF", "u5883", "u8981", "u6C42">>,   \* 安全和环境要求
      <<"u76F8", "u5173", "u6587", "u4EF6">>,   \* 相关文件
      <<"u804C", "u8D23">>,   \* 职责
      <<"u5B9A", "u4E49", "u548C", "u7F29", "u5199">>,   \* 定义和缩写
      <<"u6D3B", "u52A8", "u63CF", "u53D9">>,   \* 活动描叙
      <<"u5177", "u4F53", "u64CD", "u4F5C", "u5982", "u4E0B">>,   \* 具体操作如下
      <<"u9644", "u5F55">>,   \* 附录
      <<"u5386", "u53F2", "u7EAA", "u5F55">> }   \* 历史纪录

title_keywords ==
    { <<"u76EE", "u7684">>,   \* 目的
      <<"u9002", "u7528", "u8303", "u56F4">>,   \* 适用范围
      <<"u804C", "u8D23">>,   \* 职责
      <<"u6D3B", "u52A8", "u63CF", "u8FF0">>,   \* 活动描述
      <<"u76F8", "u5173", "u6587", "u4EF6">>,   \* 相关文件
      <<"u5B9A", "u4E49">>,   \* 定义
      <<"u9644", "u5F55">>,   \* 附录
      <<"u5386", "u53F2">>,   \* 历史
      <<"u8BB0", "u5F55">>,   \* 记录
      <<"u89C4", "u7A0B">>,   \* 规程
      <<"u8BF4", "u660E">>,   \* 说明
      <<"u6CE8", "u610F", "u4E8B", "u9879">> }   \* 注意事项

\* re.match(r'^H\d+$', style_name)
StyleIsHn(style) ==
    Len(style) >= 2 /\ style[1] = "H" /\ DigitRun(style, 2) = Len(style) - 1

\* the first lines of is_heading_paragraph: the Word style names a heading
StyleIsHeading(style) ==
    \/ Contains(style, <<"Heading">>)
    \/ Contains(style, <<"u6807u9898">>)   \* 标题
    \/ StyleIsHn(style)

\* re.search(word + r'\s*(\d+)', style_name) finds a match at token i
StyleNumberAt(style, word, i) ==
    /\ style[i] = word
    /\ DigitRun(style, i + 1 + ClassRun(style, WhiteSpace, i + 1)) > 0

StyleHasNumber(style, word) == \E i \in 1..Len(style) : StyleNumberAt(style, word, i)

\* int(match.group(1)) of the leftmost match
StyleNumberAfter(style, word) ==
    LET i == CHOOSE k \in 1..Len(style) :
                 StyleNumberAt(style, word, k) /\ \A j \in 1..(k - 1) : ~StyleNumberAt(style, word, j)
        a == i + 1 + ClassRun(style, WhiteSpace, i + 1)
    IN  IntOf(SubSeq(style, a, a + DigitRun(style, a) - 1))

\* variant: a paragraph without text is no heading, whatever its style
IsHeadingParagraph_TextOnly(p) ==
    LET text == Strip(p.text)
        clean_text == Strip(StripNumbering(text))
    IN  /\ text /= <<>>
        /\ \/ StyleIsHeading(p.style)
           \/ MultiLevelLen(text) > 0
           \/ MatchesNumParen(text)
           \/ clean_text \in TOP_LEVEL_KEYWORDS
           \/ Contains(text, <<"u6D3B", "u52A8", "u63CF", "u8FF0">>) /\ MatchesNumDot(text)   \* 活动描述
           \/ MatchesNumDot(text) /\ \E k \in title_keywords : Contains(clean_text, k)

IsHeadingParagraph(p) ==
    LET text == Strip(p.text)
        clean_text == Strip(StripNumbering(text))
    IN  \/ StyleIsHeading(p.style)
        \/ MultiLevelLen(text) > 0
        \/ MatchesNumParen(text)
        \/ clean_text \in TOP_LEVEL_KEYWORDS
        \/ Contains(text, <<"u6D3B", "u52A8", "u63CF", "u8FF0">>) /\ MatchesNumDot(text)   \* 活动描述
        \/ MatchesNumDot(text) /\ \E k \in title_keywords : Contains(clean_text, k)

\* the style branch of get_heading_level returns a level
StyleGivesLevel(style) ==
    IF Contains(style, <<"Heading">>) THEN StyleHasNumber(style, "Heading")
    ELSE IF Contains(style, <<"u6807u9898">>) THEN StyleHasNumber(style, "u6807u9898")   \* 标题标题
    ELSE StyleIsHn(style)

\* the level it returns
StyleLevel(style) ==
    IF Contains(style, <<"Heading">>) THEN StyleNumberAfter(style, "Heading")
    ELSE IF Contains(style, <<"u6807u9898">>) THEN StyleNumberAfter(style, "u6807u9898")   \* 标题标题
    ELSE IntOf(Drop(style, 2))

\* the deepest level get_heading_level returns for a numbered text
MaxTextLevel == 10

\* variant: the level is the number of dots
GetHeadingLevel_NoPlusOne(p) ==
    LET text == Strip(p.text)
        n == MultiLevelLen(text)
    IN  IF StyleGivesLevel(p.style) THEN StyleLevel(p.style)
        ELSE IF n > 0 THEN Min(CountChar(Take(text, n), "."), MaxTextLevel)
        ELSE 1

\* variant: the numeral of the text is looked at before the style
GetHeadingLevel_TextFirst(p) ==
    LET text == Strip(p.text)
        n == MultiLevelLen(text)
    IN  IF n > 0 THEN Min(CountChar(Take(text, n), ".") + 1, MaxTextLevel)
        ELSE IF StyleGivesLevel(p.style) THEN StyleLevel(p.style)
        ELSE 1

\* get_heading_level: every text rule below the multi-level one returns 1,
\* as does the default
GetHeadingLevel(p) ==
    LET text == Strip(p.text)
        n == MultiLevelLen(text)
    IN  IF StyleGivesLevel(p.style) THEN StyleLevel(p.style)
        ELSE IF n > 0 THEN Min(CountChar(Take(text, n), ".") + 1, MaxTextLevel)
        ELSE 1


-----------------------------------------------------------------------------
(* Image extraction: extract_images_with_captions_from_docx                  *)

\* doc.paragraphs: the paragraphs of the body, in order
IsParagraph(b) == b.kind = "p"

IsTable(b) == b.kind = "t"

Paragraphs(d) == SelectSeq(d, IsParagraph)

FigWords == << <<"u56FE", "u8868">>, <<"u56FE">>, <<"F", "i", "g", "u", "r", "e">>, <<"F", "i", "g">> >>   \* 图表图FigureFig

FigSeparators == WhiteSpace \cup {"uFF1A", ":"}   \* ：:

\* re.match(r'^(图表|图|Figure|Fig)[\s：:]*\d+', t)
FigPattern(t) ==
    \E k \in 1..Len(FigWords) :
        /\ StartsWith(t, FigWords[k])
        /\ DigitRun(t, Len(FigWords[k]) + 1
                         + ClassRun(t, FigSeparators, Len(FigWords[k]) + 1)) > 0

\* the longest text that still counts as a caption
CaptionMaxLen == 120

\* _is_caption_text
IsCaptionText(t) ==
    /\ t /= <<>>
    /\ (FigPattern(Strip(t)) \/ Len(Strip(t)) <= CaptionMaxLen)

\* all_caption_paras: the indices of the caption-shaped paragraphs, ascending
RECURSIVE AllCaptionParas(_, _)
AllCaptionParas(ps, i) ==
    IF i > Len(ps) THEN <<>>
    ELSE (IF IsCaptionText(Strip(ps[i].text)) THEN <<i>> ELSE <<>>)
             \o AllCaptionParas(ps, i + 1)

\* how far the caption search looks before and after the picture
CaptionWindow == 8

Candidate(t, idx, score) == [text |-> t, idx |-> idx, score |-> score]

\* the candidates of the paragraphs before (dir = -1) or after (dir = 1)
\* paragraph i, from the given offset on; fig is the score of a numbered caption
RECURSIVE NearCandidates(_, _, _, _, _)
NearCandidates(ps, i, dir, offset, fig) ==
    LET j == i + dir * offset
    IN  IF offset > CaptionWindow \/ j < 1 \/ j > Len(ps) THEN <<>>
        ELSE LET t == Strip(ps[j].text)
             IN  IF t = <<>> THEN NearCandidates(ps, i, dir, offset + 1, fig)
                 ELSE IF IsHeadingParagraph(ps[j]) THEN <<>>
                 ELSE (IF IsCaptionText(t)
                       THEN <<Candidate(t, j, IF FigPattern(t) THEN fig ELSE 1)>>
                       ELSE <<>>)
                          \o NearCandidates(ps, i, dir, offset + 1, fig)

\* the alt texts of the drawings of paragraph i
RECURSIVE AltCandidates(_, _)
AltCandidates(alts, i) ==
    IF alts = <<>> THEN <<>>
    ELSE (IF Strip(Head(alts)) /= <<>> THEN <<Candidate(Strip(Head(alts)), i, 4)>> ELSE <<>>)
             \o AltCandidates(Tail(alts), i)

\* candidates, in the order the code appends them
Candidates(ps, i) ==
    LET cur_text == Strip(ps[i].text)
    IN  (IF cur_text /= <<>>
         THEN <<Candidate(cur_text, i, IF FigPattern(cur_text) THEN 2 ELSE 1)>>
         ELSE <<>>)
        \o NearCandidates(ps, i, -1, 1, 3)
        \o NearCandidates(ps, i, 1, 1, 2)
        \o AltCandidates(ps[i].alt, i)

\* variant: the candidates are ranked by distance alone
KeyLess_DistanceOnly(a, b, i) == Abs(a.idx - i) < Abs(b.idx - i)

\* the sort key (-score, abs(idx - i)) of a is smaller than that of b
KeyLess(a, b, i) ==
    \/ a.score > b.score
    \/ a.score = b.score /\ Abs(a.idx - i) < Abs(b.idx - i)

\* candidates[0] after the stable sort: the first candidate of least key
BestCandidate(cands, i) ==
    LET k == CHOOSE k \in 1..Len(cands) :
                 /\ \A j \in 1..Len(cands) : ~KeyLess(cands[j], cands[k], i)
                 /\ \A j \in 1..(k - 1) : KeyLess(cands[k], cands[j], i)
    IN  cands[k]

FilenameInfix == <<"_", "i", "m", "a", "g", "e", "_", "i", "d", "_", "_", "_", "_", "i", "m", "a", "g", "e">>

\* the extension the code gives a picture stored as a PNG part
PngExt == <<".", "p", "n", "g">>

ImageFilename(name, n, ext) == name \o FilenameInfix \o StrOf(n) \o ext

\* the first pass over the paragraphs from i on; acc is image_info so far.
\* Only the first a:blip of a paragraph is looked at, so a paragraph yields
\* at most one record.  Every relationship is taken to be an embedded PNG.
RECURSIVE ExtractFrom(_, _, _, _)
ExtractFrom(ps, name, i, acc) ==
    IF i > Len(ps) THEN acc
    ELSE IF ps[i].img >= 1
    THEN LET cands == Candidates(ps, i)
             best == BestCandidate(cands, i)
             rec == [filename |-> ImageFilename(name, Len(acc) + 1, PngExt),
                     caption |-> IF cands = <<>> THEN <<>> ELSE best.text,
                     para_index |-> i,
                     caption_index |-> IF cands = <<>> THEN 0 ELSE best.idx]
         IN  ExtractFrom(ps, name, i + 1, Append(acc, rec))
    ELSE ExtractFrom(ps, name, i + 1, acc)

\* dist of the second pass, times ten: a caption at or before the picture
\* is 0.1 nearer
Dist10(ci, para_idx) == 10 * Abs(ci - para_idx) - (IF ci <= para_idx THEN 1 ELSE 0)

\* variant: of the caption paragraphs of least dist the last one is picked
NearestCaptionPara_Last(caps, para_idx) ==
    LET k == CHOOSE k \in 1..Len(caps) :
                 /\ \A j \in 1..Len(caps) :
                        Abs(caps[k] - para_idx) <= Abs(caps[j] - para_idx)
                 /\ \A j \in (k + 1)..Len(caps) :
                        Abs(caps[j] - para_idx) > Abs(caps[k] - para_idx)
    IN  caps[k]

\* the caption paragraph the second pass picks: the first of least dist
NearestCaptionPara(caps, para_idx) ==
    LET k == CHOOSE k \in 1..Len(caps) :
                 /\ \A j \in 1..Len(caps) : Dist10(caps[k], para_idx) <= Dist10(caps[j], para_idx)
                 /\ \A j \in 1..(k - 1) : Dist10(caps[j], para_idx) > Dist10(caps[k], para_idx)
    IN  caps[k]

\* the second pass: a picture left without caption takes the nearest
\* caption-shaped paragraph
SecondPass(ps, info) ==
    LET caps == AllCaptionParas(ps, 1)
    IN  [n \in 1..Len(info) |->
            IF info[n].caption = <<>> /\ caps /= <<>>
            THEN LET ci == NearestCaptionPara(caps, info[n].para_index)
                 IN  [info[n] EXCEPT !.caption = Strip(ps[ci].text), !.caption_index = ci]
            ELSE info[n]]

ExtractImagesWithCaptions(d, name) ==
    LET ps == Paragraphs(d) IN SecondPass(ps, ExtractFrom(ps, name, 1, <<>>))


-----------------------------------------------------------------------------
(* process_sop_document_with_images: image list, pre-pass, paragraph map     *)

\* Python's  s[:n]  (a negative n counts from the end)
PyPrefix(s, n) ==
    IF n >= 0 THEN Take(s, n)
    ELSE IF Len(s) + n > 0 THEN SubSeq(s, 1, Len(s) + n) ELSE <<>>

Last(s) == s[Len(s)]

PathSep == <<" ", ">", " ">>

\* build_section_path
BuildSectionPath(titles) == Join(titles, PathSep)

\* [int(n) for n in number_match.group(1).split('.') if n.isdigit()]
ExplicitNumbers(text) ==
    LET parts == SplitAt(Take(text, DottedPrefixLen(text)), ".")
    IN  [k \in 1..Len(parts) |-> IntOf(parts[k])]

\* '.'.join(str(x) for x in counters)
RECURSIVE NumberStr(_)
NumberStr(counters) ==
    IF counters = <<>> THEN <<>>
    ELSE IF Len(counters) = 1 THEN StrOf(counters[1])
    ELSE StrOf(counters[1]) \o <<".">> \o NumberStr(Tail(counters))

\* variant: the counters are sized to the level and the last one left as it is
AutoCounters_NoIncrement(counters, level) ==
    IF Len(counters) < level
    THEN counters \o [k \in 1..(level - Len(counters)) |-> 0]
    ELSE PyPrefix(counters, level)

\* the counters after an unnumbered heading of the given level: padded with
\* zeros or truncated to the level, then the last one incremented
AutoCounters(counters, level) ==
    LET sized == IF Len(counters) < level
                 THEN counters \o [k \in 1..(level - Len(counters)) |-> 0]
                 ELSE PyPrefix(counters, level)
    IN  IF sized = <<>> THEN <<1>>
        ELSE [sized EXCEPT ![Len(sized)] = sized[Len(sized)] + 1]

\* the ordered_images list: one entry per record, in the order of the number
\* in its id, the file names renumbered from 1
OrderedImages(info) ==
    [n \in 1..Len(info) |->
        LET old == info[n].filename
            name == SplitOn(old, FilenameInfix)[1]
            ext == Last(SplitAt(old, "."))
        IN  [index |-> n,
             filename |-> name \o FilenameInfix \o StrOf(n) \o <<".">> \o ext,
             caption |-> info[n].caption,
             used |-> FALSE,
             forced_section |-> <<>>]]

\* caption_set
CaptionSet(info) ==
    {Strip(info[n].caption) : n \in {m \in 1..Len(info) : Strip(info[m].caption) /= <<>>}}

\* the numbering of the pre-pass and of the paragraph map
\* (the same lines twice in the code): counters and numbered title
PreNumbering(counters, h_text, h_level) ==
    IF DottedPrefixLen(h_text) > 0
    THEN [counters |-> ExplicitNumbers(h_text), title |-> h_text]
    ELSE LET c == AutoCounters(counters, h_level)
             sep == IF h_level = 1 THEN <<".", " ">> ELSE <<" ">>
         IN  [counters |-> c,
              title |-> IF h_text /= <<>> /\ IsDigit(h_text[1]) THEN h_text
                        ELSE NumberStr(c) \o sep \o h_text]

\* variant: the new heading replaces the whole stack
PreStack_LeafOnly(stack, title, h_level) == <<title>>

\* the stack of the pre-pass and of the paragraph map after a heading
PreStack(stack, title, h_level) ==
    Append(IF stack /= <<>> /\ Len(stack) >= h_level
           THEN PyPrefix(stack, h_level - 1) ELSE stack,
           title)

\* the pre-pass over the blocks from i on: the paths recorded for the tables
RECURSIVE PrePass(_, _, _, _, _)
PrePass(d, i, stack, counters, acc) ==
    IF i > Len(d) THEN acc
    ELSE IF IsTable(d[i])
    THEN PrePass(d, i + 1, stack, counters, Append(acc, Join(stack, PathSep)))
    ELSE IF IsHeadingParagraph(d[i])
    THEN LET lvl == GetHeadingLevel(d[i])
             num == PreNumbering(counters, Strip(d[i].text), lvl)
         IN  PrePass(d, i + 1, PreStack(stack, num.title, lvl), num.counters, acc)
    ELSE PrePass(d, i + 1, stack, counters, acc)

\* paragraph_section_map over the paragraphs from i on
RECURSIVE ParagraphSectionMap(_, _, _, _, _)
ParagraphSectionMap(ps, i, stack, counters, acc) ==
    IF i > Len(ps) THEN acc
    ELSE IF IsHeadingParagraph(ps[i])
    THEN LET lvl == GetHeadingLevel(ps[i])
             num == PreNumbering(counters, Strip(ps[i].text), lvl)
             st == PreStack(stack, num.title, lvl)
         IN  ParagraphSectionMap(ps, i + 1, st, num.counters, Append(acc, Join(st, PathSep)))
    ELSE ParagraphSectionMap(ps, i + 1, stack, counters, Append(acc, Join(stack, PathSep)))


-----------------------------------------------------------------------------
(* process_sop_document_with_images: the main pass                           *)

\* variant: an explicit numeral leaves the counters as they are
MainNumbering_NoSync(counters, heading_text, heading_level) ==
    IF DottedPrefixLen(heading_text) > 0
    THEN [counters |-> counters, title |-> heading_text, auto |-> FALSE]
    ELSE LET c == AutoCounters(counters, heading_level)
         IN  [counters |-> c,
              auto |-> TRUE,
              title |-> IF heading_text = <<>>
                        THEN NumberStr(c) \o (IF heading_level = 1 THEN <<".">> ELSE <<>>)
                        ELSE IF IsDigit(heading_text[1]) THEN heading_text
                        ELSE IF heading_level = 1
                        THEN NumberStr(c) \o <<".", " ">> \o heading_text
                        ELSE NumberStr(c) \o <<" ">> \o heading_text]

\* variant: a heading without text is numbered like one with text
MainNumbering_NoEmptyCase(counters, heading_text, heading_level) ==
    IF DottedPrefixLen(heading_text) > 0
    THEN [counters |-> ExplicitNumbers(heading_text), title |-> heading_text, auto |-> FALSE]
    ELSE LET c == AutoCounters(counters, heading_level)
         IN  [counters |-> c,
              auto |-> TRUE,
              title |-> IF heading_text /= <<>> /\ IsDigit(heading_text[1]) THEN heading_text
                        ELSE IF heading_level = 1
                        THEN NumberStr(c) \o <<".", " ">> \o heading_text
                        ELSE NumberStr(c) \o <<" ">> \o heading_text]

\* the numbering of the main pass: counters and numbered title
MainNumbering(counters, heading_text, heading_level) ==
    IF DottedPrefixLen(heading_text) > 0
    THEN [counters |-> ExplicitNumbers(heading_text), title |-> heading_text, auto |-> FALSE]
    ELSE LET c == AutoCounters(counters, heading_level)
         IN  [counters |-> c,
              auto |-> TRUE,
              title |-> IF heading_text = <<>>
                        THEN NumberStr(c) \o (IF heading_level = 1 THEN <<".">> ELSE <<>>)
                        ELSE IF IsDigit(heading_text[1]) THEN heading_text
                        ELSE IF heading_level = 1
                        THEN NumberStr(c) \o <<".", " ">> \o heading_text
                        ELSE NumberStr(c) \o <<" ">> \o heading_text]

\* heading_stack.index(h): 0-based position of the first entry with h's title
StackIndex(stack, h) ==
    (CHOOSE k \in 1..Len(stack) :
         stack[k].title = h.title /\ \A j \in 1..(k - 1) : stack[j].title /= h.title) - 1

\* [h for h in heading_stack if heading_stack.index(h) < heading_level - 1],
\* over the entries from position i on
RECURSIVE KeepShallower(_, _, _)
KeepShallower(stack, i, heading_level) ==
    IF i > Len(stack) THEN <<>>
    ELSE (IF StackIndex(stack, stack[i]) < heading_level - 1 THEN <<stack[i]>> ELSE <<>>)
             \o KeepShallower(stack, i + 1, heading_level)

\* an entry of heading_stack: the title the code keeps, and the level the
\* heading was classified with
StackEntry(title, level) == [title |-> title, level |-> level]

\* heading_stack after a heading (lines 825-832)
PushHeading(stack, title, heading_level) ==
    LET kept == KeepShallower(stack, 1, heading_level)
        cut == IF Len(kept) >= heading_level THEN PyPrefix(kept, heading_level - 1) ELSE kept
    IN  Append(cut, StackEntry(title, heading_level))

Titles(stack) == [k \in 1..Len(stack) |-> stack[k].title]

Levels(stack) == [k \in 1..Len(stack) |-> stack[k].level]

Bullets == {"u00B7", "u2022"}   \* ·•

\* re.sub('^' + first + r'\s*', '* ', text, flags=re.MULTILINE) for a set of
\* first characters, from position i on: \s* also eats line breaks
RECURSIVE SubBullet(_, _, _)
SubBullet(s, first, i) ==
    IF i > Len(s) THEN <<>>
    ELSE IF (i = 1 \/ s[i - 1] = "\n") /\ s[i] \in first
    THEN <<"*", " ">> \o SubBullet(s, first, i + 1 + ClassRun(s, WhiteSpace, i + 1))
    ELSE <<s[i]>> \o SubBullet(s, first, i + 1)

\* re.sub(r'^--\t', '* ', text, flags=re.MULTILINE), from position i on
RECURSIVE SubDashes(_, _)
SubDashes(s, i) ==
    IF i > Len(s) THEN <<>>
    ELSE IF (i = 1 \/ s[i - 1] = "\n") /\ OccursAt(s, <<"-", "-", "\t">>, i)
    THEN <<"*", " ">> \o SubDashes(s, i + 3)
    ELSE <<s[i]>> \o SubDashes(s, i + 1)

\* normalize_list_symbols
NormalizeListSymbols(text) ==
    SubBullet(SubDashes(SubBullet(text, Bullets, 1), 1), {"u3001"}, 1)   \* 、

\* the case folding of re.IGNORECASE, for the letters of the patterns
Lower(c) ==
    CASE c = "F" -> "f" [] c = "I" -> "i" [] c = "G" -> "g" [] c = "U" -> "u"
      [] c = "R" -> "r" [] c = "E" -> "e" [] OTHER -> c

LowerText(s) == [k \in 1..Len(s) |-> Lower(s[k])]

\* the patterns of find_image_references_in_text that end in \s*\d+
NumberedRefWords == { <<"u56FE">>, <<"u56FE", "u7247">>, <<"u9644", "u56FE">>, <<"f", "i", "g", "u", "r", "e">>, <<"f", "i", "g">> }   \* 图图片附图figurefig

PlainRefWords == { <<"u89C1", "u4E0B", "u56FE">>, <<"u5982", "u56FE", "u6240", "u793A">>, <<"u53C2", "u8003", "u56FE">> }   \* 见下图如图所示参考图

\* find_image_references_in_text(text) is not empty
HasImageRefs(text) ==
    LET t == LowerText(text)
    IN  \/ \E w \in NumberedRefWords : \E i \in 1..Len(t) :
               /\ OccursAt(t, w, i)
               /\ DigitRun(t, i + Len(w) + ClassRun(t, WhiteSpace, i + Len(w))) > 0
        \/ \E w \in PlainRefWords : Contains(t, w)

Isolation == <<"u9694", "u79BB">>   \* 隔离

Section743 == <<"7", ".", "u6D3B", "u52A8", "u63CF", "u8FF0", " ", ">", " ", "7", ".", "4", "u4E0D", "u5408", "u683C", "u54C1", "u7BA1", "u7406", " ", ">", " ", "7", ".", "4", ".", "3", "u5F53", "u73ED", "u73ED", "u957F", "u63A5", "u6536", "u9694", "u79BB", "u5B8C", "u6210", "u540E", "uFF0C", "u5F53", "u73ED", "u90AE", "u4EF6", "u53CD", "u9988", "u9694", "u79BB", "u4FE1", "u606F", "uFF0C", "u901A", "u77E5", "Q", "A", "u4EBA", "u5458", "u73B0", "u573A", "u5F20", "u8D34", "u9694", "u79BB", "u5355", "uFF0C", "Q", "A", "u90AE", "u4EF6", "u53CD", "u9988", "u9694", "u79BB", "u4FE1", "u606F", "uFF1B", "uFF08", "u9694", "u79BB", "u5355", "u4E0A", "u5E94", "u5305", "u542B", "u9694", "u79BB", "u6570", "u91CF", "u3001", "u54C1", "u79CD", "u3001", "u6279", "u6B21", "uFF0C", "u9694", "u79BB", "u539F", "u56E0", "u53CA", "u9694", "u79BB", "u4EBA", "uFF0C", "u4E25", "u683C", "u6267", "u884C", "u9694", "u79BB", "u56DB", "u8981", "u7D20", "uFF1B", "u9694", "u79BB", "u56DB", "u8981", "u7D20", "u8BF7", "u53C2", "u8003", "u300A", "u9694", "u79BB", "u9152", "O", "P", "L", "u300B", "u53CA", "u300A", "u54C1", "u8D28", "u9694", "u79BB", "u6807", "u51C6", "V", "P", "O", " ", "Q", "U", "A", "L", " ", "W", "H", " ", "3", " ", "4", " ", "1", " ", "0", "0", "2", " ", "u9694", "u79BB", "u9152", "u64CD", "u4F5C", ".", "d", "o", "c", "x", "u300B", "uFF1B">>   \* 7.活动描述 > 7.4不合格品管理 > 7.4.3当班班长接收隔离完成后，当班邮件反馈隔离信息，通知QA人员现场张贴隔离单，QA邮件反馈隔离信息；（隔离单上应包含隔离数量、品种、批次，隔离原因及隔离人，严格执行隔离四要素；隔离四要素请参考《隔离酒OPL》及《品质隔离标准VPO QUAL WH 3 4 1 002 隔离酒操作.docx》；

\* identify_image_section: every branch below the first returns the path
IdentifyImageSection(image_content, current_section_path) ==
    IF current_section_path = <<>> THEN <<>>
    ELSE IF /\ Contains(current_section_path, Isolation) \/ Contains(image_content, Isolation)
            /\ ~Contains(current_section_path, <<"7", ".", "4", ".", "3">>)
            /\ Contains(current_section_path, <<"7", ".", "4">>)
    THEN Replace(current_section_path, <<"7", ".", "4">>, <<"7", ".", "4", ".", "3">>)
    ELSE current_section_path

\* the first line of a text
FirstLine(text) == SplitAt(text, "\n")[1]

\* re.match(r'^\d+(?:\.\d+)*(?:\.)?\s*.+', line): a digit, and one more
\* character for .+ (which \d+ gives back when nothing else is left)
LooksNumbered(line) == Len(line) >= 2 /\ IsDigit(line[1])

\* section_path of the buffer that is flushed
FlushSectionPath(stack, combined_text) ==
    LET first_line == Strip(FirstLine(combined_text))
    IN  IF Strip(combined_text) /= <<>> /\ LooksNumbered(first_line)
        THEN first_line
        ELSE BuildSectionPath(Titles(stack))

Chunk(text, path, image, image_path) ==
    [chunk |-> text, section_path |-> path,
     image_filename |-> image, image_section_path |-> image_path]

\* how few pending pictures a heading flush hands out in order
FewPending == 2

\* the flush of a non-empty buffer, at a heading (final = FALSE) or at the end
\* of the stream (final = TRUE): the chunks and pending_images afterwards
Flush(buffer, stack, pending, chunkList, final) ==
    LET combined_text == NormalizeListSymbols(Join(buffer, <<"\n">>))
        section_path == FlushSectionPath(stack, combined_text)
        should_assign_to_743 ==
            Contains(combined_text, Isolation) /\ Contains(section_path, <<"7", ".", "4">>)
        takes == /\ pending /= <<>>
                 /\ \/ HasImageRefs(combined_text)
                    \/ should_assign_to_743
                    \/ final
                    \/ Len(pending) <= FewPending
        image_filename == IF takes THEN Head(pending) ELSE <<>>
        image_section_path ==
            IF ~takes THEN <<>>
            ELSE IF should_assign_to_743 THEN Section743
            ELSE IdentifyImageSection(combined_text, section_path)
    IN  [pending |-> IF takes THEN Tail(pending) ELSE pending,
         chunks |-> IF section_path /= <<>>
                    THEN Append(chunkList, Chunk(combined_text, section_path,
                                                 image_filename, image_section_path))
                    ELSE chunkList]

\* variant: no heading is taken for a caption
SkipsAsCaption_Never(text, captions) == FALSE

\* line 731: the text of the heading is one of the recorded captions
SkipsAsCaption(text, captions) == text \in captions

\* the state the main pass carries from block to block
MainState(stack, counters, buffer, pending, chunkList, log) ==
    [stack |-> stack, counters |-> counters, buffer |-> buffer,
     pending |-> pending, chunks |-> chunkList, log |-> log]

\* variant: the buffer is not started anew at a heading
MainBlock_KeepsBuffer(st, b, captions) ==
    IF IsTable(b) THEN st
    ELSE IF IsHeadingParagraph(b)
    THEN IF SkipsAsCaption(Strip(b.text), captions) THEN st
         ELSE LET lvl == GetHeadingLevel(b)
                  num == MainNumbering(st.counters, Strip(b.text), lvl)
                  fl == IF st.buffer /= <<>>
                        THEN Flush(st.buffer, st.stack, st.pending, st.chunks, FALSE)
                        ELSE [pending |-> st.pending, chunks |-> st.chunks]
              IN  MainState(PushHeading(st.stack, num.title, lvl),
                            num.counters,
                            Append(st.buffer, num.title),
                            fl.pending,
                            fl.chunks,
                            Append(st.log, [title |-> num.title, level |-> lvl,
                                            counters |-> num.counters, auto |-> num.auto]))
    ELSE IF Strip(b.text) /= <<>>
    THEN [st EXCEPT !.buffer = Append(st.buffer, Strip(b.text))]
    ELSE st

\* one iteration of the main loop, on block b
MainBlock(st, b, captions) ==
    IF IsTable(b) THEN st
    ELSE IF IsHeadingParagraph(b)
    THEN IF SkipsAsCaption(Strip(b.text), captions) THEN st
         ELSE LET lvl == GetHeadingLevel(b)
                  num == MainNumbering(st.counters, Strip(b.text), lvl)
                  fl == IF st.buffer /= <<>>
                        THEN Flush(st.buffer, st.stack, st.pending, st.chunks, FALSE)
                        ELSE [pending |-> st.pending, chunks |-> st.chunks]
              IN  MainState(PushHeading(st.stack, num.title, lvl),
                            num.counters,
                            <<num.title>>,
                            fl.pending,
                            fl.chunks,
                            Append(st.log, [title |-> num.title, level |-> lvl,
                                            counters |-> num.counters, auto |-> num.auto]))
    ELSE IF Strip(b.text) /= <<>>
    THEN [st EXCEPT !.buffer = Append(st.buffer, Strip(b.text))]
    ELSE st


-----------------------------------------------------------------------------
(* process_sop_document_with_images: the table pass                          *)

\* "| " + " | ".join(cells) + " |"
MarkdownRow(cells) == <<"|", " ">> \o Join(cells, <<" ", "|", " ">>) \o <<" ", "|">>

\* table_to_markdown
TableToMarkdown(rows) ==
    IF rows = <<>> THEN <<>>
    ELSE LET stripped == [r \in 1..Len(rows) |->
                             [c \in 1..Len(rows[r]) |-> Strip(rows[r][c])]]
             rule == [c \in 1..Len(rows[1]) |-> <<"-", "-", "-">>]
         IN  Join(<<MarkdownRow(stripped[1]), MarkdownRow(rule)>>
                      \o [r \in 1..(Len(rows) - 1) |-> MarkdownRow(stripped[r + 1])],
                  <<"\n">>)

UnknownSection == <<"u672A", "u77E5", "u7AE0", "u8282">>   \* 未知章节

Hazard == <<"u5371", "u9669", "u6E90">>   \* 危险源

Controls == <<"u63A7", "u5236", "u63AA", "u65BD">>   \* 控制措施

\* identify_table_section
IdentifyTableSection(table_content) ==
    LET has(w) == Contains(table_content, w)
    IN  IF has(<<"u5206", "u7C7B">>) /\ has(Hazard) /\ has(Controls) THEN <<"3", ".", "1", " ", "u98CE", "u9669", "u8BC6", "u522B">>   \* 分类3.1 风险识别
        ELSE IF has(<<"u76F8", "u5173", "u6A21", "u5757">>) /\ has(Hazard) /\ has(Controls) THEN <<"3", ".", "2", " ", "u5173", "u952E", "u63A7", "u5236", "u70B9">>   \* 相关模块3.2 关键控制点
        ELSE IF has(<<"u6210", "u54C1", "u5E93", "u4FDD", "u7BA1", "u5458">>) /\ has(<<"u6210", "u54C1", "u5E93", "u73ED", "u957F">>) /\ has(<<"S", "O", "P", "u64B0", "u5199">>) THEN <<"5", ".", "u804C", "u8D23">>   \* 成品库保管员成品库班长SOP撰写5.职责
        ELSE IF has(<<"u672C", "S", "O", "P", "u6D89", "u53CA", "u5230", "u7684", "u4E3B", "u8981", "K", "P", "I">>) /\ has(<<"P", "I">>) THEN <<"6", ".", "u5B9A", "u4E49", "u548C", "u7F29", "u5199">>   \* 本SOP涉及到的主要KPIPI6.定义和缩写
        ELSE IF has(<<"u7248", "u672C">>) /\ has(<<"u4F5C", "u8005">>) /\ has(<<"u65E5", "u671F">>) THEN <<"8", ".", "u5386", "u53F2", "u6587", "u4EF6", "u8BB0", "u5F55">>   \* 版本作者日期8.历史文件记录
        ELSE IF has(<<"u4ED3", "u5E93", "u5229", "u7528", "u7387">>) /\ has(<<"u52B3", "u52A8", "u751F", "u4EA7", "u7387">>) THEN <<"6", ".", "u5B9A", "u4E49", "u548C", "u7F29", "u5199">>   \* 仓库利用率劳动生产率6.定义和缩写
        ELSE IF has(<<"P", "P", "E", "u77E9", "u9635">>) /\ has(<<"u98CE", "u9669", "u8BC4", "u4F30">>) THEN <<"3", ".", "2", " ", "u5173", "u952E", "u63A7", "u5236", "u70B9">>   \* PPE矩阵风险评估3.2 关键控制点
        ELSE IF has(<<"u5E94", "u6025", "u65B9", "u6848">>) /\ has(<<"u6210", "u54C1", "u9152", "u9AD8", "u7A7A", "u5760", "u843D">>) THEN <<"3", ".", "2", " ", "u5173", "u952E", "u63A7", "u5236", "u70B9">>   \* 应急方案成品酒高空坠落3.2 关键控制点
        ELSE UnknownSection

TopLevelTableSections ==
    { <<"3", ".", "1", " ", "u98CE", "u9669", "u8BC6", "u522B">>, <<"3", ".", "2", " ", "u5173", "u952E", "u63A7", "u5236", "u70B9">>, <<"5", ".", "u804C", "u8D23">>, <<"6", ".", "u5B9A", "u4E49", "u548C", "u7F29", "u5199">>, <<"8", ".", "u5386", "u53F2", "u6587", "u4EF6", "u8BB0", "u5F55">> }   \* 3.1 风险识别3.2 关键控制点5.职责6.定义和缩写8.历史文件记录

\* heading.split()[0]: the first blank-separated word
RECURSIVE WordLen(_, _)
WordLen(s, i) == IF i <= Len(s) /\ s[i] \notin WhiteSpace THEN 1 + WordLen(s, i + 1) ELSE 0

FirstWord(s) == LET t == LStrip(s) IN Take(t, WordLen(t, 1))

\* build_table_section_path; the table pass calls it with an empty stack
BuildTableSectionPath(table_section, titles) ==
    IF table_section \in TopLevelTableSections THEN table_section
    ELSE IF \E i \in 1..Len(titles) : StartsWith(table_section, FirstWord(titles[i]))
    THEN LET i == CHOOSE k \in 1..Len(titles) :
                      /\ StartsWith(table_section, FirstWord(titles[k]))
                      /\ \A j \in 1..(k - 1) : ~StartsWith(table_section, FirstWord(titles[j]))
         IN  Join(Take(titles, i), PathSep) \o PathSep \o table_section
    ELSE table_section

TableWord == <<"u8868", "u683C">>   \* 表格

\* the last title of a path
LeafTitle(path) == Last(SplitOn(path, PathSep))

\* table_position_section.get(table_index, ""), table_index counted from 0
PositionPath(positions, table_index) ==
    IF table_index + 1 <= Len(positions) THEN positions[table_index + 1] ELSE <<>>

\* section_path of the chunk of a table (lines 909-920)
TableSectionPath(positions, table_index, markdown_table) ==
    IF PositionPath(positions, table_index) /= <<>>
    THEN PositionPath(positions, table_index)
    ELSE BuildTableSectionPath(IdentifyTableSection(markdown_table), <<>>)

\* the text of the chunk of a table
TableChunkText(leaf_title, markdown_table) == leaf_title \o <<"\n", "\n">> \o markdown_table

\* table_counter_map[leaf_title] += 1  on a defaultdict(int)
Bump(counter, key) ==
    [k \in DOMAIN counter \cup {key} |->
        IF k = key THEN (IF key \in DOMAIN counter THEN counter[key] ELSE 0) + 1
        ELSE counter[k]]

\* the table pass over the blocks from i on; tp holds chunks, table_index
\* and table_counter_map.  A table without rows is skipped before
\* table_index is advanced.
RECURSIVE TablePass(_, _, _, _)
TablePass(d, i, positions, tp) ==
    IF i > Len(d) THEN tp
    ELSE IF ~IsTable(d[i]) THEN TablePass(d, i + 1, positions, tp)
    ELSE LET markdown_table == TableToMarkdown(d[i].rows)
             table_section_path == TableSectionPath(positions, tp.table_index, markdown_table)
             leaf_title == IF table_section_path /= <<>>
                           THEN LeafTitle(table_section_path) ELSE TableWord
         IN  IF markdown_table = <<>> THEN TablePass(d, i + 1, positions, tp)
             ELSE TablePass(d, i + 1, positions,
                      [chunks |-> Append(tp.chunks,
                                         Chunk(TableChunkText(leaf_title, markdown_table),
                                               table_section_path, <<>>, <<>>)),
                       table_index |-> tp.table_index + 1,
                       counter |-> Bump(tp.counter, leaf_title)])


-----------------------------------------------------------------------------
(* process_sop_document_with_images: binding the pictures to the chunks      *)

\* forced_section of a picture: the path of the nearest paragraph at or
\* before its caption that has one
RECURSIVE ForcedPath(_, _)
ForcedPath(section_map, j) ==
    IF j < 1 THEN <<>>
    ELSE IF section_map[j] /= <<>> THEN section_map[j]
    ELSE ForcedPath(section_map, j - 1)

WithForcedSections(images, info, section_map) ==
    [n \in 1..Len(images) |->
        [images[n] EXCEPT !.forced_section =
            IF info[images[n].index].caption_index = 0 THEN <<>>
            ELSE ForcedPath(section_map, info[images[n].index].caption_index)]]

\* section_51_start: the first paragraph whose text starts with 5.1 (0: None)
Section51Start(ps) ==
    LET hit(i) == StartsWith(Strip(ps[i].text), <<"5", ".", "1">>)
    IN  IF \E i \in 1..Len(ps) : hit(i)
        THEN CHOOSE i \in 1..Len(ps) : hit(i) /\ \A j \in 1..(i - 1) : ~hit(j)
        ELSE 0

\* section_51_end: the first later paragraph that starts with 5.2, 5.3 or 6.
Section51End(ps) ==
    LET s == Section51Start(ps)
        hit(i) == LET t == Strip(ps[i].text)
                  IN  StartsWith(t, <<"5", ".", "2">>) \/ StartsWith(t, <<"5", ".", "3">>) \/ StartsWith(t, <<"6", ".">>)
    IN  IF \E i \in (s + 1)..Len(ps) : hit(i)
        THEN CHOOSE i \in (s + 1)..Len(ps) : hit(i) /\ \A j \in (s + 1)..(i - 1) : ~hit(j)
        ELSE Len(ps) + 1

\* the match of re.search(r'(\d+\.\d+)', caption), or <<>> without one
DecimalIn(caption) ==
    LET hit(i) == /\ DigitRun(caption, i) > 0
                  /\ i + DigitRun(caption, i) <= Len(caption)
                  /\ caption[i + DigitRun(caption, i)] = "."
                  /\ DigitRun(caption, i + DigitRun(caption, i) + 1) > 0
    IN  IF \E i \in 1..Len(caption) : hit(i)
        THEN LET i == CHOOSE k \in 1..Len(caption) : hit(k) /\ \A j \in 1..(k - 1) : ~hit(j)
                 a == DigitRun(caption, i)
             IN  SubSeq(caption, i, i + a + DigitRun(caption, i + a + 1))
        ELSE <<>>

\* rule 1: the forced, position-based section
ForcedMatches(img, chunk_section) ==
    /\ img.forced_section /= <<>>
    /\ LeafTitle(img.forced_section) /= <<>>
    /\ \/ EndsWith(chunk_section, LeafTitle(img.forced_section))
       \/ Contains(chunk_section, img.forced_section)

\* the band of section 5.1
Section51Matches(cap_idx, ps, chunk_section) ==
    /\ Section51Start(ps) /= 0
    /\ cap_idx /= 0
    /\ Section51Start(ps) <= cap_idx
    /\ cap_idx < Section51End(ps)
    /\ Contains(chunk_section, <<"5", ".", "1">>)

\* rules 2 and 3: the caption's decimal number, then the keyword rules, the
\* first rule whose condition on the caption holds deciding alone
CaptionMatches(caption, chunk_section) ==
    LET in(w) == Contains(caption, w)
        sec(w) == Contains(chunk_section, w)
    IN  IF DecimalIn(caption) /= <<>> THEN sec(DecimalIn(caption))
        ELSE IF in(<<"u914D", "u9001", "u6A21", "u5F0F">>) THEN sec(<<"9", ".", "u914D", "u9001", "u6A21", "u5F0F">>)   \* 配送模式9.配送模式
        ELSE IF in(<<"u81EA", "u63D0", "u6A21", "u5F0F">>) THEN sec(<<"1", "0", ".", " ", "u81EA", "u63D0", "u6A21", "u5F0F">>) \/ sec(<<"u81EA", "u63D0", "u6A21", "u5F0F">>)   \* 自提模式10. 自提模式自提模式
        ELSE IF (in(<<"u5916", "u89C2">>) /\ in(<<"u74F6", "u5916", "u58C1">>)) \/ in(<<"u975E", "u767E", "u5A01", "u74F6">>) \/ in(<<"u7834", "u635F", "u74F6">>)   \* 外观瓶外壁非百威瓶破损瓶
             THEN sec(<<"5", ".", "1", "u53EF", "u63A5", "u6536", "-", "u666E", "u901A", "u6D17", "u74F6", "u5DE5", "u827A", "u80FD", "u6D17", "u51C0">>)   \* 5.1可接收-普通洗瓶工艺能洗净
        ELSE IF \/ in(<<"u9709", "u6591">>) \/ in(<<"u78E8", "u82B1">>) \/ in(<<"u7279", "u810F">>) \/ in(<<"u7834", "u635F">>)   \* 霉斑磨花特脏破损
                \/ in(<<"u4E0D", "u5E72", "u80F6">>) \/ in(<<"u5851", "u6599", "u6807", "u7B7E">>) \/ in(<<"u74F6", "u53E3", "u7F3A", "u9677">>)   \* 不干胶塑料标签瓶口缺陷
                \/ in(<<"u5047", "u6807", "u7B7E">>) \/ in(<<"u55B7", "u7801">>) \/ in(<<"u6807", "u7B7E">>)   \* 假标签喷码标签
             THEN sec(<<"5", ".", "3", "u4E0D", "u53EF", "u63A5", "u6536", "-", "u4E0D", "u5408", "u683C">>)   \* 5.3不可接收-不合格
        ELSE IF in(<<"u5851", "u7BB1">>) \/ in(<<"u94C1", "u4E1D">>) \/ in(<<"u710A", "u63A5">>)   \* 塑箱铁丝焊接
             THEN sec(<<"5", ".", "4", "u4E0D", "u53EF", "u63A5", "u6536", "u7684", "u56DE", "u6536", "u5851", "u7BB1">>)   \* 5.4不可接收的回收塑箱
        ELSE IF in(<<"u624E", "u5564", "u6876">>) \/ in(<<"u6539", "u88C5">>) \/ in(<<"u53D8", "u5F62">>) \/ in(<<"u74F6", "u9600">>)   \* 扎啤桶改装变形瓶阀
             THEN sec(<<"5", ".", "5", "u4E0D", "u53EF", "u63A5", "u6536", "u7684", "u624E", "u5564", "u6876">>)   \* 5.5不可接收的扎啤桶
        ELSE DottedPrefixLen(caption) > 0
                 /\ StartsWith(chunk_section, Take(caption, DottedPrefixLen(caption)))

ChinaRTP == <<"C", "h", "i", "n", "a", " ", "R", "T", "P", "-", "0", "0", "1">>

\* rule 4: a picture without caption, by its ordinal
BandMatches(img, chunk_section) ==
    LET sec(w) == Contains(chunk_section, w)
        n == img.index
    IN  IF Contains(img.filename, ChinaRTP)
        THEN \/ n = 1 /\ sec(<<"4", ".", "1">>)
             \/ 4 <= n /\ n <= 11 /\ (sec(<<"5", ".", "1">>) \/ sec(<<"5", ".", "2">>) \/ sec(<<"5", ".", "3">>))
             \/ 12 <= n /\ n <= 14 /\ sec(<<"5", ".", "3">>)
             \/ 32 <= n /\ n <= 38 /\ sec(<<"5", ".", "3">>)
        ELSE \/ n <= 2 /\ (sec(<<"1", ".">>) \/ sec(<<"2", ".">>))
             \/ 3 <= n /\ n <= 5 /\ (sec(<<"3", ".">>) \/ sec(<<"4", ".">>))
             \/ n >= 6 /\ (sec(<<"5", ".">>) \/ sec(<<"6", ".">>))

\* assigned_section == chunk_section  (lines 985-1068); assigned_section
\* starts as the unknown section, which a chunk's path can be
AssignedTo(img, cap_idx, ps, chunk_section) ==
    \/ chunk_section = UnknownSection
    \/ ForcedMatches(img, chunk_section)
    \/ Section51Matches(cap_idx, ps, chunk_section)
    \/ IF img.caption /= <<>>
       THEN CaptionMatches(img.caption, chunk_section)
       ELSE BandMatches(img, chunk_section)

TableFigure == <<"u56FE", "u8868">>   \* 图表

\* re.sub(r'^图表\s*\d+[\s：:]*', '', caption)
StripFigureNumber(caption) ==
    LET a == 3 + ClassRun(caption, WhiteSpace, 3)
    IN  IF StartsWith(caption, TableFigure) /\ DigitRun(caption, a) > 0
        THEN Drop(caption, a + DigitRun(caption, a)
                             + ClassRun(caption, FigSeparators, a + DigitRun(caption, a)))
        ELSE caption

\* re.sub(r'\s+', ' ', s), from position i on
RECURSIVE CollapseBlanks(_, _)
CollapseBlanks(s, i) ==
    IF i > Len(s) THEN <<>>
    ELSE IF s[i] \in WhiteSpace
    THEN <<" ">> \o CollapseBlanks(s, i + ClassRun(s, WhiteSpace, i))
    ELSE <<s[i]>> \o CollapseBlanks(s, i + 1)

BracketOpen == <<"[", "u56FE", ":", " ">>   \* [图: 

ContentLabel == <<"u56FE", "u7247", "u5185", "u5BB9", "uFF1A">>   \* 图片内容：

PositionLabel == <<"u56FE", "u7247", "u6240", "u5728", "S", "O", "P", "u4F4D", "u7F6E", "uFF1A">>   \* 图片所在SOP位置：

\* create_enhanced_image_chunk_content
ImageBlock(filename, target_section, caption) ==
    LET tmp == CollapseBlanks(Strip(StripFigureNumber(caption)), 1)
    IN  BracketOpen \o filename
            \o (IF tmp /= <<>> THEN <<"\n">> \o ContentLabel \o tmp ELSE <<>>)
            \o <<"]", "\n">> \o PositionLabel \o target_section

\* the indices of the pictures a chunk takes in the binding pass
SectionImages(images, info, ps, chunk_section) ==
    {n \in 1..Len(images) :
        /\ ~images[n].used
        /\ AssignedTo(images[n], info[images[n].index].caption_index, ps, chunk_section)}

\* image_content for the pictures, in the order of ordered_images
RECURSIVE ImageContent(_, _, _, _)
ImageContent(images, taken, chunk_section, n) ==
    IF n > Len(images) THEN <<>>
    ELSE (IF n \in taken
          THEN <<"\n", "\n">> \o ImageBlock(images[n].filename, chunk_section, images[n].caption)
          ELSE <<>>)
             \o ImageContent(images, taken, chunk_section, n + 1)

\* the binding pass over the chunks from k on; bd holds chunks and images
RECURSIVE BindPass(_, _, _, _)
BindPass(bd, info, ps, k) ==
    IF k > Len(bd.chunks) THEN bd
    ELSE LET chunk_section == bd.chunks[k].section_path
             taken == IF chunk_section = <<>> THEN {}
                      ELSE SectionImages(bd.images, info, ps, chunk_section)
         IN  BindPass([chunks |-> [bd.chunks EXCEPT ![k].chunk =
                                       @ \o ImageContent(bd.images, taken, chunk_section, 1)],
                       images |-> [n \in 1..Len(bd.images) |->
                                       IF n \in taken
                                       THEN [bd.images[n] EXCEPT !.used = TRUE]
                                       ELSE bd.images[n]]],
                      info, ps, k + 1)


-----------------------------------------------------------------------------
(* process_sop_document_with_images: caption cleanup and the second binding  *)

BracketMark == <<"[", "u56FE", ":">>   \* [图:

ContentMark == <<"\n", "u56FE", "u7247", "u5185", "u5BB9", "uFF1A">>   \* \n图片内容：

\* the captures of r"\[图: [^\]]*?(?:\n图片内容：([^\]]+))?\]" in text from
\* position i on, stripped, the empty ones left out
RECURSIVE BracketCaptions(_, _)
BracketCaptions(text, i) ==
    IF i > Len(text) THEN {}
    ELSE LET a == i + Len(BracketOpen)
             closes == {j \in a..Len(text) : text[j] = "]"}
         IN  IF OccursAt(text, BracketOpen, i) /\ closes /= {}
             THEN LET j == CHOOSE c \in closes : \A o \in closes : c <= o
                      content == SubSeq(text, a, j - 1)
                      cap == IF Contains(content, ContentMark)
                             THEN Strip(Drop(content, Find(content, ContentMark) + Len(ContentMark)))
                             ELSE <<>>
                  IN  (IF cap /= <<>> THEN {cap} ELSE {}) \cup BracketCaptions(text, j + 1)
             ELSE BracketCaptions(text, i + 1)

\* re.match(r'^(图表|图|Figure|Fig)\s*\d+', line)
FigLine(line) ==
    \E k \in 1..Len(FigWords) :
        /\ StartsWith(line, FigWords[k])
        /\ DigitRun(line, Len(FigWords[k]) + 1
                            + ClassRun(line, WhiteSpace, Len(FigWords[k]) + 1)) > 0

\* variant: only the first repeated line is taken out
RECURSIVE KeptLines_FirstOnly(_, _)
KeptLines_FirstOnly(lines, caps) ==
    IF lines = <<>> THEN <<>>
    ELSE LET stripped == Strip(Head(lines))
             dropped == /\ stripped /= <<>>
                        /\ \/ FigLine(stripped)
                           \/ ~IsDigit(stripped[1]) /\ stripped \in caps
         IN  IF dropped THEN Tail(lines)
             ELSE <<Head(lines)>> \o KeptLines_FirstOnly(Tail(lines), caps)

\* the lines of the prefix that clean_duplicate_captions keeps
RECURSIVE KeptLines(_, _)
KeptLines(lines, caps) ==
    IF lines = <<>> THEN <<>>
    ELSE LET stripped == Strip(Head(lines))
             dropped == /\ stripped /= <<>>
                        /\ \/ FigLine(stripped)
                           \/ ~IsDigit(stripped[1]) /\ stripped \in caps
         IN  (IF dropped THEN <<>> ELSE <<Head(lines)>>) \o KeptLines(Tail(lines), caps)

\* clean_duplicate_captions
CleanDuplicateCaptions(text) ==
    IF ~Contains(text, BracketMark) THEN text
    ELSE LET first_idx == Find(text, BracketMark)
             prefix == SubSeq(text, 1, first_idx - 1)
             rest == Drop(text, first_idx)
         IN  Join(KeptLines(SplitAt(prefix, "\n"), BracketCaptions(text, 1)), <<"\n">>) \o rest

CleanChunks(chunkList) ==
    [k \in 1..Len(chunkList) |->
        IF chunkList[k].chunk /= <<>>
        THEN [chunkList[k] EXCEPT !.chunk = CleanDuplicateCaptions(@)]
        ELSE chunkList[k]]

\* the chunks whose section the forced path of a picture names
ForcedChunks(chunkList, forced_path) ==
    {k \in 1..Len(chunkList) :
        /\ LeafTitle(forced_path) /= <<>>
        /\ \/ EndsWith(chunkList[k].section_path, LeafTitle(forced_path))
           \/ Contains(chunkList[k].section_path, forced_path)}

\* the chunks that have a section path
PathChunks(chunkList) == {k \in 1..Len(chunkList) : chunkList[k].section_path /= <<>>}

MinOf(S) == CHOOSE x \in S : \A y \in S : x <= y

MaxOf(S) == CHOOSE x \in S : \A y \in S : x >= y

AppendBlock(chunkList, k, img) ==
    [chunkList EXCEPT ![k].chunk =
        @ \o <<"\n", "\n">> \o ImageBlock(img.filename, chunkList[k].section_path, img.caption)]

\* the chunks after the second binding has dealt with one unused picture:
\* its forced chunk, else the last chunk with a section path, else nowhere
ForceAttachOne(chunkList, img) ==
    IF img.forced_section /= <<>> /\ ForcedChunks(chunkList, img.forced_section) /= {}
    THEN AppendBlock(chunkList, MinOf(ForcedChunks(chunkList, img.forced_section)), img)
    ELSE IF PathChunks(chunkList) /= {}
    THEN AppendBlock(chunkList, MaxOf(PathChunks(chunkList)), img)
    ELSE chunkList

\* variant: the second binding takes every picture, used or not
RECURSIVE ForceAttach_IgnoresUsed(_, _)
ForceAttach_IgnoresUsed(bd, n) ==
    IF n > Len(bd.images) THEN bd
    ELSE ForceAttach_IgnoresUsed([chunks |-> ForceAttachOne(bd.chunks, bd.images[n]),
                                  images |-> [bd.images EXCEPT ![n].used = TRUE]],
                                 n + 1)

\* the second binding over the pictures from n on; the unused ones are those
\* of the list made before the loop, and each ends marked used
RECURSIVE ForceAttach(_, _)
ForceAttach(bd, n) ==
    IF n > Len(bd.images) THEN bd
    ELSE IF bd.images[n].used THEN ForceAttach(bd, n + 1)
    ELSE ForceAttach([chunks |-> ForceAttachOne(bd.chunks, bd.images[n]),
                      images |-> [bd.images EXCEPT ![n].used = TRUE]],
                     n + 1)


-----------------------------------------------------------------------------
(* The documents the pipeline is run on                                      *)

\* the longest document built from the block alphabet
MaxBlocks == 3

NormalStyle == <<"Normal">>

Heading1Style == <<"Heading", " ", "1">>

Heading2Style == <<"Heading", " ", "2">>

PurposeHeading == Para(NormalStyle, <<"1", ".", " ", "u76EE", "u7684">>, 0, <<>>)   \* 1. 目的

ScopeHeading == Para(NormalStyle, <<"2", ".", "1", " ", "u9002", "u7528", "u8303", "u56F4">>, 0, <<>>)   \* 2.1 适用范围

KeywordHeading == Para(NormalStyle, <<"u76EE", "u7684">>, 0, <<>>)   \* 目的

StyledHeading == Para(Heading2Style, <<"u8303", "u56F4">>, 0, <<>>)   \* 范围

EmptyHeading == Para(Heading1Style, <<>>, 0, <<>>)

PlainText == Para(NormalStyle, <<"d", "o", " ", "X">>, 0, <<>>)

DigitText == Para(NormalStyle, <<"1", "x">>, 0, <<>>)

Picture == Para(NormalStyle, <<>>, 1, <<>>)

CaptionedPicture == Para(NormalStyle, <<"1", "x">>, 1, <<>>)

OneCellTable == Tbl(<< << <<"a">> >> >>)

EmptyTable == Tbl(<<>>)

BlockAlphabet ==
    { PurposeHeading, ScopeHeading, KeywordHeading, StyledHeading, EmptyHeading,
      PlainText, DigitText, Picture, CaptionedPicture, OneCellTable, EmptyTable }

\* two numbered headings, a paragraph and a table
HeadingsTextTable == <<PurposeHeading, ScopeHeading, PlainText, OneCellTable>>

FigureCaption == Para(NormalStyle, <<"u56FE", "1", " ", "a">>, 0, <<>>)   \* 图1 a

AltPicture == Para(NormalStyle, <<>>, 1, << <<"a", "l", "t">> >>)

HeadingPicture == Para(NormalStyle, <<"1", ".", " ", "u76EE", "u7684">>, 1, <<>>)   \* 1. 目的

EmptyParagraph == Para(NormalStyle, <<>>, 0, <<>>)

\* a numbered figure line before a picture that has alt text
AltOverFigure == <<FigureCaption, AltPicture>>

\* a picture inside a heading paragraph
PictureInHeading == <<HeadingPicture>>

\* a picture with plain text next to it and a numbered figure line further off
FigureBehindText == <<FigureCaption, PlainText, Picture, PlainText>>

\* a paragraph at the far edge of the caption search, and one just past it
TextAtWindowEdge ==
    <<PlainText>> \o [k \in 1..(CaptionWindow - 1) |-> EmptyParagraph] \o <<Picture>>

TextPastWindow ==
    <<PlainText>> \o [k \in 1..CaptionWindow |-> EmptyParagraph] \o <<Picture>>

BulletText == Para(NormalStyle, <<"u2022", "x">>, 0, <<>>)   \* •x

\* a list item under a heading
BulletUnderHeading == <<PurposeHeading, BulletText, PlainText, ScopeHeading>>

\* a paragraph whose runs hold two embedded pictures
TwoPictures == Para(NormalStyle, <<>>, 2, <<>>)

TwoPicturesInOne == <<PurposeHeading, TwoPictures, PlainText>>

ScenarioDocs ==
    { HeadingsTextTable, AltOverFigure, PictureInHeading, FigureBehindText,
      TextAtWindowEdge, TextPastWindow, BulletUnderHeading, TwoPicturesInOne }

Documents == UNION {[1..n -> BlockAlphabet] : n \in 0..MaxBlocks} \cup ScenarioDocs

\* base names of the .docx file; the binding pass has rules of its own for
\* files named after China RTP-001
DocNames == { <<"D">>, ChinaRTP }

\* the values the variables of the heading classifier's harness keep while
\* the pipeline runs, and those of the pipeline while the harness runs
IdlePara == Para(NormalStyle, <<>>, 0, <<>>)

IdleRes == [heading |-> FALSE, level |-> 0]

-----------------------------------------------------------------------------
(* process_sop_document_with_images as a state machine                       *)

\* pending_images = list(image_mapping.values())
PendingImages(info) == [n \in 1..Len(info) |-> info[n].filename]

Init ==
    /\ IdleTable /\ IdleBatch /\ IdleCsv /\ IdleJson
    /\ doc \in Documents
    /\ doc_name \in DocNames
    /\ pc = "extract"
    /\ image_info = <<>>
    /\ ordered_images = <<>>
    /\ caption_set = {}
    /\ table_position_section = <<>>
    /\ paragraph_section_map = <<>>
    /\ blk = 1
    /\ heading_stack = <<>>
    /\ heading_counters = <<>>
    /\ current_content_buffer = <<>>
    /\ pending_images = <<>>
    /\ chunks = <<>>
    /\ heading_log = <<>>
    /\ table_counter_map = <<>>
    /\ result = "none"
    /\ cl_par = IdlePara
    /\ cl_res = IdleRes

\* lines 561-648: extraction, ordered_images, pending_images, caption_set
Extract ==
    /\ pc = "extract"
    /\ image_info' = ExtractImagesWithCaptions(doc, doc_name)
    /\ ordered_images' = OrderedImages(image_info')
    /\ pending_images' = PendingImages(image_info')
    /\ caption_set' = CaptionSet(image_info')
    /\ pc' = "prescan"
    /\ UNCHANGED other_programs
    /\ UNCHANGED <<doc, doc_name, table_position_section, paragraph_section_map, blk,
                   heading_stack, heading_counters, current_content_buffer, chunks,
                   heading_log, table_counter_map, result, cl_par, cl_res>>

\* lines 650-690: the pre-pass that records a heading path for every table
PreScan ==
    /\ pc = "prescan"
    /\ table_position_section' = PrePass(doc, 1, <<>>, <<>>, <<>>)
    /\ pc' = "paramap"
    /\ UNCHANGED other_programs
    /\ UNCHANGED <<doc, doc_name, image_info, ordered_images, caption_set,
                   paragraph_section_map, blk, heading_stack, heading_counters,
                   current_content_buffer, pending_images, chunks, heading_log,
                   table_counter_map, result, cl_par, cl_res>>

\* lines 692-722: the heading path of every paragraph
MapParagraphs ==
    /\ pc = "paramap"
    /\ paragraph_section_map' = ParagraphSectionMap(Paragraphs(doc), 1, <<>>, <<>>, <<>>)
    /\ pc' = "main"
    /\ UNCHANGED other_programs
    /\ UNCHANGED <<doc, doc_name, image_info, ordered_images, caption_set,
                   table_position_section, blk, heading_stack, heading_counters,
                   current_content_buffer, pending_images, chunks, heading_log,
                   table_counter_map, result, cl_par, cl_res>>

\* lines 725-845: one iteration of the main loop
MainStep ==
    /\ pc = "main"
    /\ blk <= Len(doc)
    /\ LET st == MainBlock(MainState(heading_stack, heading_counters,
                                     current_content_buffer, pending_images,
                                     chunks, heading_log),
                           doc[blk], caption_set)
       IN  /\ heading_stack' = st.stack
           /\ heading_counters' = st.counters
           /\ current_content_buffer' = st.buffer
           /\ pending_images' = st.pending
           /\ chunks' = st.chunks
           /\ heading_log' = st.log
    /\ blk' = blk + 1
    /\ UNCHANGED other_programs
    /\ UNCHANGED <<doc, doc_name, pc, image_info, ordered_images, caption_set,
                   table_position_section, paragraph_section_map,
                   table_counter_map, result, cl_par, cl_res>>

\* lines 847-898: the buffer left when the stream ends
FinalFlush ==
    /\ pc = "main"
    /\ blk > Len(doc)
    /\ LET fl == IF current_content_buffer /= <<>>
                 THEN Flush(current_content_buffer, heading_stack, pending_images,
                            chunks, TRUE)
                 ELSE [pending |-> pending_images, chunks |-> chunks]
       IN  /\ pending_images' = fl.pending
           /\ chunks' = fl.chunks
    /\ pc' = "tables"
    /\ UNCHANGED other_programs
    /\ UNCHANGED <<doc, doc_name, image_info, ordered_images, caption_set,
                   table_position_section, paragraph_section_map, blk, heading_stack,
                   heading_counters, current_content_buffer, heading_log,
                   table_counter_map, result, cl_par, cl_res>>

\* lines 900-935: the table pass
Tables ==
    /\ pc = "tables"
    /\ LET tp == TablePass(doc, 1, table_position_section,
                           [chunks |-> chunks, table_index |-> 0, counter |-> <<>>])
       IN  /\ chunks' = tp.chunks
           /\ table_counter_map' = tp.counter
    /\ pc' = "forced"
    /\ UNCHANGED other_programs
    /\ UNCHANGED <<doc, doc_name, image_info, ordered_images, caption_set,
                   table_position_section, paragraph_section_map, blk, heading_stack,
                   heading_counters, current_content_buffer, pending_images,
                   heading_log, result, cl_par, cl_res>>

\* lines 939-951: forced_section of every picture
ForcedSections ==
    /\ pc = "forced"
    /\ ordered_images' = WithForcedSections(ordered_images, image_info, paragraph_section_map)
    /\ pc' = "bind"
    /\ UNCHANGED other_programs
    /\ UNCHANGED <<doc, doc_name, image_info, caption_set, table_position_section,
                   paragraph_section_map, blk, heading_stack, heading_counters,
                   current_content_buffer, pending_images, chunks, heading_log,
                   table_counter_map, result, cl_par, cl_res>>

\* lines 976-1087: the binding pass
Bind ==
    /\ pc = "bind"
    /\ LET bd == BindPass([chunks |-> chunks, images |-> ordered_images],
                          image_info, Paragraphs(doc), 1)
       IN  /\ chunks' = bd.chunks
           /\ ordered_images' = bd.images
    /\ pc' = "clean"
    /\ UNCHANGED other_programs
    /\ UNCHANGED <<doc, doc_name, image_info, caption_set, table_position_section,
                   paragraph_section_map, blk, heading_stack, heading_counters,
                   current_content_buffer, pending_images, heading_log,
                   table_counter_map, result, cl_par, cl_res>>

\* lines 1093-1125: clean_duplicate_captions on every chunk
Clean ==
    /\ pc = "clean"
    /\ chunks' = CleanChunks(chunks)
    /\ pc' = "attach"
    /\ UNCHANGED other_programs
    /\ UNCHANGED <<doc, doc_name, image_info, ordered_images, caption_set,
                   table_position_section, paragraph_section_map, blk, heading_stack,
                   heading_counters, current_content_buffer, pending_images,
                   heading_log, table_counter_map, result, cl_par, cl_res>>

\* lines 1127-1161: the second binding, of the pictures still unused
Attach ==
    /\ pc = "attach"
    /\ LET bd == ForceAttach([chunks |-> chunks, images |-> ordered_images], 1)
       IN  /\ chunks' = bd.chunks
           /\ ordered_images' = bd.images
    /\ pc' = "save"
    /\ UNCHANGED other_programs
    /\ UNCHANGED <<doc, doc_name, image_info, caption_set, table_position_section,
                   paragraph_section_map, blk, heading_stack, heading_counters,
                   current_content_buffer, pending_images, heading_log,
                   table_counter_map, result, cl_par, cl_res>>

\* variant: the CSV is written whatever the chunks are
SaveResult_Always(chunkList) == "True"

\* lines 1164-1183: False without chunks, else the CSV is written and True
SaveResult(chunkList) == IF chunkList = <<>> THEN "False" ELSE "True"

\* lines 1163-1183: the return statement
Save ==
    /\ pc = "save"
    /\ result' = SaveResult(chunks)
    /\ pc' = "done"
    /\ UNCHANGED other_programs
    /\ UNCHANGED <<doc, doc_name, image_info, ordered_images, caption_set,
                   table_position_section, paragraph_section_map, blk, heading_stack,
                   heading_counters, current_content_buffer, pending_images, chunks,
                   heading_log, table_counter_map, cl_par, cl_res>>

Next ==
    \/ Extract
    \/ PreScan
    \/ MapParagraphs
    \/ MainStep
    \/ FinalFlush
    \/ Tables
    \/ ForcedSections
    \/ Bind
    \/ Clean
    \/ Attach
    \/ Save

Spec == Init /\ [][Next]_vars


-----------------------------------------------------------------------------
(* The heading classifier on its own                                         *)

\* the longest dotted numeral a classified text starts with
MaxComponents == 11

TitleStyle == <<"u6807u9898">>   \* 标题

ShortStyle == <<"H", "2">>

NumberedTitleStyle == <<"u6807u9898", " ", "3">>   \* 标题 3

ClassifyStyles == { NormalStyle, Heading2Style, TitleStyle, ShortStyle, NumberedTitleStyle }

\* what follows the numeral
ClassifySuffixes ==
    { <<>>, <<" ", "F", "o", "o">>, <<".">>, <<")">>, <<".", " ", "u76EE", "u7684">>, <<" ", "u76EE", "u7684">>, <<".", " ", "u6D3B", "u52A8", "u63CF", "u8FF0">>, <<")", " ", "x">> }   \*  Foo.). 目的 目的. 活动描述) x

\* the numeral 1.2.3...k  (empty for k = 0)
Numeral(k) == NumberStr([i \in 1..k |-> i])

ClassifyInputs ==
    { Para(s, Numeral(k) \o suffix, 0, <<>>) :
          s \in ClassifyStyles, k \in 0..MaxComponents, suffix \in ClassifySuffixes }

InitClassify ==
    /\ IdleTable /\ IdleBatch /\ IdleCsv /\ IdleJson
    /\ cl_par \in ClassifyInputs
    /\ cl_res = IdleRes
    /\ pc = "classify"
    /\ doc = <<>>
    /\ doc_name = <<>>
    /\ image_info = <<>>
    /\ ordered_images = <<>>
    /\ caption_set = {}
    /\ table_position_section = <<>>
    /\ paragraph_section_map = <<>>
    /\ blk = 1
    /\ heading_stack = <<>>
    /\ heading_counters = <<>>
    /\ current_content_buffer = <<>>
    /\ pending_images = <<>>
    /\ chunks = <<>>
    /\ heading_log = <<>>
    /\ table_counter_map = <<>>
    /\ result = "none"

\* is_heading_paragraph and get_heading_level on one paragraph
Classify ==
    /\ pc = "classify"
    /\ cl_res' = [heading |-> IsHeadingParagraph(cl_par), level |-> GetHeadingLevel(cl_par)]
    /\ pc' = "classified"
    /\ UNCHANGED other_programs
    /\ UNCHANGED <<doc, doc_name, image_info, ordered_images, caption_set,
                   table_position_section, paragraph_section_map, blk, heading_stack,
                   heading_counters, current_content_buffer, pending_images, chunks,
                   heading_log, table_counter_map, result, cl_par>>

NextClassify == Classify

SpecClassify == InitClassify /\ [][NextClassify]_vars


-----------------------------------------------------------------------------
(* The caption cleanup on its own                                            *)

\* the most lines of prose a cleaned chunk has
MaxLines == 3

\* lines of prose: plain, a numbered figure line, one opening with a digit,
\* an empty one, one with blanks around it, one that holds the marker "[图:"
CleanLines ==
    { <<"d", "o", " ", "X">>, <<"u56FE", "1", " ", "a">>, <<"1", "x">>, <<>>, <<" ", "d", "o", " ", "X", " ">>, <<"a", " ", "[", "u56FE", ":", " ", "b">> }   \* do X图1 a1x do X a [图: b

\* the captions of the pictures bound to the chunk: no picture, one picture
\* (without caption, with a plain one, a numbered one, one opening with a
\* digit), two pictures
CleanCaptionLists ==
    { <<>>,
      << <<>> >>,
      << <<"d", "o", " ", "X">> >>,
      << <<"u56FE", "u8868", " ", "1", " ", "d", "o", " ", "X">> >>,   \* 图表 1 do X
      << <<"1", "x">> >>,
      << <<"d", "o", " ", "X">>, <<"1", "x">> >>,
      << <<>>, <<"d", "o", " ", "X">> >> }

\* the pictures with the given captions, as the binding pass leaves them
BoundPictures(caps) ==
    [n \in 1..Len(caps) |->
        [index |-> n, filename |-> ImageFilename(<<"D">>, n, PngExt),
         caption |-> caps[n], used |-> TRUE, forced_section |-> <<>>]]

\* a chunk as the binding pass leaves it: the prose, then the picture blocks
BoundChunk(lines, pictures) ==
    Chunk(Join(lines, <<"\n">>)
              \o ImageContent(pictures, 1..Len(pictures), UnknownSection, 1),
          UnknownSection, <<>>, <<>>)

InitClean ==
    /\ IdleTable /\ IdleBatch /\ IdleCsv /\ IdleJson
    /\ current_content_buffer \in UNION {[1..n -> CleanLines] : n \in 0..MaxLines}
    /\ ordered_images \in {BoundPictures(caps) : caps \in CleanCaptionLists}
    /\ chunks = <<BoundChunk(current_content_buffer, ordered_images)>>
    /\ pc = "clean"
    /\ doc = <<>>
    /\ doc_name = <<"D">>
    /\ image_info = <<>>
    /\ caption_set = {}
    /\ table_position_section = <<>>
    /\ paragraph_section_map = <<>>
    /\ blk = 1
    /\ heading_stack = <<>>
    /\ heading_counters = <<>>
    /\ pending_images = <<>>
    /\ heading_log = <<>>
    /\ table_counter_map = <<>>
    /\ result = "none"
    /\ cl_par = IdlePara
    /\ cl_res = IdleRes

\* clean_duplicate_captions once more on every chunk
Reclean ==
    /\ pc = "attach"
    /\ chunks' = CleanChunks(chunks)
    /\ pc' = "recleaned"
    /\ UNCHANGED other_programs
    /\ UNCHANGED <<doc, doc_name, image_info, ordered_images, caption_set,
                   table_position_section, paragraph_section_map, blk, heading_stack,
                   heading_counters, current_content_buffer, pending_images,
                   heading_log, table_counter_map, result, cl_par, cl_res>>

NextClean ==
    \/ Clean
    \/ Reclean

SpecClean == InitClean /\ [][NextClean]_vars


-----------------------------------------------------------------------------
(* table_to_markdown on its own                                              *)

\* the most rows a converted table has
MaxRows == 2

\* the most cells a row has
MaxCols == 2

\* cell.text of a cell: plain, with blanks around it, empty, holding a pipe,
\* of two paragraphs (python-docx joins the paragraphs of a cell with "\n")
TableCells ==
    { <<"a">>, <<" ", "b", " ">>, <<>>, <<"a", "|", "b">>, <<"a", "\n", "b">> }

TableRows == UNION {[1..n -> TableCells] : n \in 1..MaxCols}

TableGrids == UNION {[1..n -> TableRows] : n \in 0..MaxRows}

InitTable ==
    /\ docx_table \in TableGrids
    /\ table_markdown = <<>>
    /\ pc = "table"
    /\ IdlePipeline /\ IdleBatch /\ IdleCsv /\ IdleJson
    /\ blk = 1
    /\ heading_stack = <<>>
    /\ cl_par = IdlePara
    /\ cl_res = IdleRes

\* markdown_table = table_to_markdown(block)
ConvertTable ==
    /\ pc = "table"
    /\ table_markdown' = TableToMarkdown(docx_table)
    /\ pc' = "converted"
    /\ UNCHANGED <<pipeline_only, blk, heading_stack, docx_table, batch_vars,
                   csv_vars, json_vars>>

NextTable == ConvertTable

SpecTable == InitTable /\ [][NextTable]_vars


-----------------------------------------------------------------------------
(* batch_process_annotated_documents                                         *)

\* the most documents the folder holds
MaxFiles == 4

DocxExt == <<".", "d", "o", "c", "x">>

DocExt == <<".", "d", "o", "c">>

\* what process_sop_document_with_images does for a document: it returns
\* True, returns False, or raises
Outcomes == { "True", "False", "raise" }

FoundFile(n, ext, outcome) == [name |-> <<"f">> \o StrOf(n) \o ext, outcome |-> outcome]

\* all_files = docx_files + doc_files
FoundFiles ==
    { [n \in 1..Len(outcomes) |->
          FoundFile(n, IF n <= docx THEN DocxExt ELSE DocExt, outcomes[n])] :
      outcomes \in UNION {[1..k -> Outcomes] : k \in 0..MaxFiles},
      docx \in 0..MaxFiles }

InitBatch ==
    /\ all_files \in FoundFiles
    /\ file_no = 1
    /\ success_count = 0
    /\ error_count = 0
    /\ processed_files = <<>>
    /\ attempted = <<>>
    /\ pc = "batch"
    /\ IdlePipeline /\ IdleTable /\ IdleCsv /\ IdleJson
    /\ blk = 1
    /\ heading_stack = <<>>
    /\ cl_par = IdlePara
    /\ cl_res = IdleRes

\* lines 33-35: no document found
NoDocuments ==
    /\ pc = "batch"
    /\ all_files = <<>>
    /\ pc' = "batch_done"
    /\ UNCHANGED <<pipeline_only, blk, heading_stack, batch_vars, table_vars,
                   csv_vars, json_vars>>

\* variant: a document that raises is not counted
Tally_RaiseUncounted(counts, file) ==
    IF file.outcome = "True"
    THEN [counts EXCEPT !.success = @ + 1, !.processed = Append(@, file.name)]
    ELSE IF file.outcome = "False"
    THEN [counts EXCEPT !.error = @ + 1]
    ELSE counts

\* lines 52-68: the counters after process_sop_document_with_images returned
\* or raised
Tally(counts, file) ==
    IF file.outcome = "True"
    THEN [counts EXCEPT !.success = @ + 1, !.processed = Append(@, file.name)]
    ELSE [counts EXCEPT !.error = @ + 1]

\* lines 48-68: one turn of the loop over all_files
ProcessDocument ==
    /\ pc = "batch"
    /\ file_no <= Len(all_files)
    /\ attempted' = Append(attempted, all_files[file_no].name)
    /\ LET counts == Tally([success |-> success_count, error |-> error_count,
                            processed |-> processed_files], all_files[file_no])
       IN  /\ success_count' = counts.success
           /\ error_count' = counts.error
           /\ processed_files' = counts.processed
    /\ file_no' = file_no + 1
    /\ UNCHANGED <<pipeline_only, pc, blk, heading_stack, all_files, table_vars,
                   csv_vars, json_vars>>

\* lines 70-100: the statistics printed after the loop
BatchSummary ==
    /\ pc = "batch"
    /\ all_files /= <<>>
    /\ file_no > Len(all_files)
    /\ pc' = "batch_done"
    /\ UNCHANGED <<pipeline_only, blk, heading_stack, batch_vars, table_vars,
                   csv_vars, json_vars>>

NextBatch ==
    \/ NoDocuments
    \/ ProcessDocument
    \/ BatchSummary

SpecBatch == InitBatch /\ [][NextBatch]_vars


-----------------------------------------------------------------------------
(* json_to_csv.py: iter_chunks                                               *)

\* JSON values: a list, a string, an object of the sections tree
JsonList(items) == [type |-> "list", items |-> items]

JsonStr(value) == [type |-> "str", value |-> value]

JsonNode(title, content, images, subsections) ==
    [type |-> "dict", title |-> title, content |-> content, images |-> images,
     subsections |-> subsections]

\* [x for x in items if x.strip()]
RECURSIVE NonBlank(_)
NonBlank(items) ==
    IF items = <<>> THEN <<>>
    ELSE (IF Strip(Head(items)) /= <<>> THEN <<Head(items)>> ELSE <<>>)
             \o NonBlank(Tail(items))

\* [p for p in items if p]
RECURSIVE Truthy(_)
Truthy(items) ==
    IF items = <<>> THEN <<>>
    ELSE (IF Head(items) /= <<>> THEN <<Head(items)>> ELSE <<>>) \o Truthy(Tail(items))

\* merged_text of a node
MergedText(content) ==
    IF content.type = "list"
    THEN Strip(Join(Truthy([i \in 1..Len(content.items) |-> Strip(content.items[i])]),
                    <<"\n">>))
    ELSE Strip(content.value)

\* image_filenames of a node
ImageFilenames(images) ==
    IF images.type = "list" THEN Join(NonBlank(images.items), <<",">>) ELSE <<>>

\* " > ".join([p for p in current_path if p])
CsvPath(current_path) == Join(Truthy(current_path), PathSep)

\* variant: the title is put on the path as it stands
CurrentPath_Untrimmed(path_titles, title) ==
    path_titles \o (IF title /= <<>> THEN <<title>> ELSE <<>>)

\* current_path = path_titles + ([title] if title else [])
CurrentPath(path_titles, title) ==
    path_titles \o (IF Strip(title) /= <<>> THEN <<Strip(title)>> ELSE <<>>)

\* _walk, and the loop over the children that are objects
RECURSIVE Walk(_, _, _), WalkAll(_, _, _)
Walk(node, path_titles, ids) ==
    LET current_path == CurrentPath(path_titles, node.title)
        merged_text == MergedText(node.content)
        row == [text |-> merged_text, sop_id |-> ids.sop_id, sop_name |-> ids.sop_name,
                section_path |-> CsvPath(current_path),
                image_filenames |-> ImageFilenames(node.images)]
    IN  (IF merged_text /= <<>> THEN <<row>> ELSE <<>>)
            \o WalkAll(node.subsections, current_path, ids)

WalkAll(children, path_titles, ids) ==
    IF children = <<>> THEN <<>>
    ELSE (IF Head(children).type = "dict" THEN Walk(Head(children), path_titles, ids)
          ELSE <<>>)
             \o WalkAll(Tail(children), path_titles, ids)

\* iter_chunks
IterChunks(tree) ==
    WalkAll(tree.sections, <<>>,
            [sop_id |-> Strip(tree.sop_id), sop_name |-> Strip(tree.sop_name)])

\* the most subsections a node of the generated trees has
MaxChildren == 2

\* titles: plain, with a blank before it, blank
CsvTitles == { <<"A">>, <<" ", "B">>, <<" ">> }

\* content and images of a node: nothing; a blank item and a padded one with
\* two pictures, one of them blank; a string instead of the lists
CsvBodies ==
    { <<JsonList(<<>>), JsonList(<<>>)>>,
      <<JsonList(<< <<" ">>, <<"y", " ">> >>), JsonList(<< <<"i">>, <<" ">> >>)>>,
      <<JsonStr(<<"z">>), JsonStr(<<"i">>)>> }

CsvLeaves == { JsonNode(t, b[1], b[2], <<>>) : t \in CsvTitles, b \in CsvBodies }

\* what a list of subsections holds: nodes, or something that is no object
CsvChildren == CsvLeaves \cup { JsonStr(<<"x">>) }

CsvBranches ==
    { JsonNode(t, b[1], b[2], kids) :
          t \in CsvTitles, b \in CsvBodies,
          kids \in UNION {[1..n -> CsvChildren] : n \in 0..MaxChildren} }

\* a tree three levels deep with a second top-level node behind it
DeepSections ==
    << JsonNode(<<"A">>, JsonList(<< <<"x">> >>), JsonList(<<>>),
           << JsonNode(<<" ", "B">>, JsonList(<<>>), JsonList(<<>>),
                  << JsonNode(<<"C">>, JsonList(<< <<"y">> >>), JsonList(<<>>), <<>>) >>),
              JsonNode(<<"D">>, JsonStr(<<"z">>), JsonList(<<>>), <<>>) >>),
       JsonNode(<<" ">>, JsonList(<< <<"w">> >>), JsonList(<<>>),
           << JsonNode(<<"E">>, JsonList(<< <<"v">> >>), JsonList(<<>>), <<>>) >>) >>

CsvSections ==
    { <<>>, DeepSections }
        \cup { <<t>> : t \in CsvBranches \cup { JsonStr(<<"x">>) } }
        \cup { <<t, l>> : t \in CsvBranches, l \in CsvChildren }

CsvRoots ==
    { [sop_id |-> <<" ", "S", "1">>, sop_name |-> <<"N">>, sections |-> secs] :
          secs \in CsvSections }

InitCsv ==
    /\ json_root \in CsvRoots
    /\ csv_rows = <<>>
    /\ pc = "csv"
    /\ IdlePipeline /\ IdleTable /\ IdleBatch /\ IdleJson
    /\ blk = 1
    /\ heading_stack = <<>>
    /\ cl_par = IdlePara
    /\ cl_res = IdleRes

\* rows = list(iter_chunks(data))
WalkTree ==
    /\ pc = "csv"
    /\ csv_rows' = IterChunks(json_root)
    /\ pc' = "walked"
    /\ UNCHANGED <<pipeline_only, blk, heading_stack, json_root, table_vars,
                   batch_vars, json_vars>>

NextCsv == WalkTree

SpecCsv == InitCsv /\ [][NextCsv]_vars


-----------------------------------------------------------------------------
(* word_to_json.py: docx_to_nested_json                                      *)

\* the deepest level a numbered line is given
JsonMaxLevel == 10

\* extract_heading_level_from_text (0 stands for None): the line opens with
\* a numeral of 2 to 10 components followed by white space, or with one
\* component, a dot and white space
ExtractHeadingLevelFromText(text) ==
    IF text = <<>> THEN 0
    ELSE LET t == Strip(text)
             n == DottedPrefixLen(t)
             d == DigitRun(t, 1)
             components == CountChar(SubSeq(t, 1, n), ".") + 1
         IN  IF n > d /\ components <= JsonMaxLevel /\ n < Len(t) /\ t[n + 1] \in WhiteSpace
             THEN components
             ELSE IF d > 0 /\ d + 1 < Len(t) /\ t[d + 1] = "." /\ t[d + 2] \in WhiteSpace
             THEN 1
             ELSE 0

\* extract_heading_level(None, line): docx2python gives no style, so only
\* the text decides
ExtractHeadingLevel(text) == ExtractHeadingLevelFromText(text)

\* the placeholder docx2python leaves in the text where a picture stands
ImagePlaceholder == "----media/image1.png----"

\* image_mapping: the name rename_image_files gave the picture
RenamedImage(sop_id) ==
    sop_id \o <<"_", "i", "m", "a", "g", "e", "1", ".", "p", "n", "g">>

RECURSIVE WithoutPlaceholders(_)
WithoutPlaceholders(text) ==
    IF text = <<>> THEN <<>>
    ELSE (IF Head(text) = ImagePlaceholder THEN <<>> ELSE <<Head(text)>>)
             \o WithoutPlaceholders(Tail(text))

\* extract_images_from_text
ExtractImagesFromText(text, sop_id) ==
    [cleaned_text |-> Strip(WithoutPlaceholders(text)),
     image_names |-> [k \in 1..CountChar(text, ImagePlaceholder) |-> RenamedImage(sop_id)]]

\* make_node
MakeNode(title, level) ==
    [title |-> title, level |-> level, content |-> <<title>>, images |-> <<>>,
     subsections |-> <<>>]

\* variant: only deeper headings are popped  (> for >=)
RECURSIVE PopHeadings_DeeperOnly(_, _)
PopHeadings_DeeperOnly(stack, level) ==
    IF stack /= <<>> /\ stack[Len(stack)].level > level
    THEN PopHeadings_DeeperOnly(SubSeq(stack, 1, Len(stack) - 1), level)
    ELSE stack

\* while heading_stack and heading_stack[-1][0] >= level: heading_stack.pop()
RECURSIVE PopHeadings(_, _)
PopHeadings(stack, level) ==
    IF stack /= <<>> /\ stack[Len(stack)].level >= level
    THEN PopHeadings(SubSeq(stack, 1, Len(stack) - 1), level)
    ELSE stack

\* images.append(img_name) for the names not yet in images
RECURSIVE AddImages(_, _)
AddImages(images, names) ==
    IF names = <<>> THEN images
    ELSE AddImages(IF \E k \in 1..Len(images) : images[k] = Head(names)
                   THEN images ELSE Append(images, Head(names)),
                   Tail(names))

\* lines 339-369: one line of the document; js holds heading_stack, the
\* nodes made so far and the top-level sections
JsonLine(js, raw, sop_id) ==
    LET line == Strip(raw)
        level == ExtractHeadingLevel(line)
    IN  IF line = <<>> THEN js
        ELSE IF level /= 0
        THEN LET popped == PopHeadings(js.stack, level)
                 id == Len(js.nodes) + 1
                 made == Append(js.nodes, MakeNode(line, level))
             IN  [stack |-> Append(popped, [level |-> level, node |-> id]),
                  nodes |-> IF popped = <<>> THEN made
                            ELSE [made EXCEPT ![popped[Len(popped)].node].subsections =
                                                   Append(@, id)],
                  sections |-> IF popped = <<>> THEN Append(js.sections, id)
                               ELSE js.sections]
        ELSE LET ex == ExtractImagesFromText(line, sop_id)
             IN  IF ex.cleaned_text /= <<>> /\ js.stack /= <<>>
                 THEN [js EXCEPT !.nodes[js.stack[Len(js.stack)].node] =
                                     [@ EXCEPT !.content = Append(@, ex.cleaned_text),
                                               !.images = AddImages(@, ex.image_names)]]
                 ELSE js

\* str(cell) of a cell that is a list of paragraphs
CellRepr(cell) ==
    <<"[">> \o Join([k \in 1..Len(cell) |-> <<"'">> \o cell[k] \o <<"'">>], <<",", " ">>)
        \o <<"]">>

\* extract_tables_from_body: the items of more than one row, every cell
\* turned into text
RECURSIVE ExtractTablesFromBody(_)
ExtractTablesFromBody(body_data) ==
    IF body_data = <<>> THEN <<>>
    ELSE LET item == Head(body_data)
         IN  (IF Len(item) > 1
              THEN << [r \in 1..Len(item) |->
                          [c \in 1..Len(item[r]) |-> Strip(CellRepr(item[r][c]))]] >>
              ELSE <<>>)
                 \o ExtractTablesFromBody(Tail(body_data))

\* a data row, filled up or cut to the width of the header
FitRow(row, width) == [c \in 1..width |-> IF c <= Len(row) THEN Strip(row[c]) ELSE <<>>]

\* convert_table_to_markdown: every line ends with a line break
ConvertTableToMarkdown(table_data) ==
    IF table_data = <<>> THEN <<>>
    ELSE LET width == Len(table_data[1])
             header == MarkdownRow([c \in 1..width |-> Strip(table_data[1][c])])
             rule == MarkdownRow([c \in 1..width |-> <<"-", "-", "-">>])
             data == [r \in 1..(Len(table_data) - 1) |->
                         MarkdownRow(FitRow(table_data[r + 1], width)) \o <<"\n">>]
         IN  header \o <<"\n">> \o rule \o <<"\n">> \o Join(data, <<>>)

\* lines 412-421: the tables are appended to the content of the heading on
\* top of the stack
RECURSIVE TablesAttached(_, _, _)
TablesAttached(nodeList, stack, tables) ==
    IF tables = <<>> \/ stack = <<>> THEN nodeList
    ELSE LET markdown == ConvertTableToMarkdown(Head(tables))
             top == stack[Len(stack)].node
         IN  TablesAttached(IF Head(tables) /= <<>> /\ markdown /= <<>>
                            THEN [nodeList EXCEPT ![top].content = Append(@, markdown)]
                            ELSE nodeList,
                            stack, Tail(tables))

\* sop_name: the first line that is not blank and opens with no "<digits>.",
\* else sop_id
RECURSIVE SopName(_, _)
SopName(textLines, sop_id) ==
    IF textLines = <<>> THEN sop_id
    ELSE LET line == Strip(Head(textLines))
         IN  IF line /= <<>> /\ ~MatchesNumDot(line) THEN line
             ELSE SopName(Tail(textLines), sop_id)

\* the nested dictionaries the function returns
RECURSIVE NestedNode(_, _)
NestedNode(nodeList, id) ==
    [type |-> "dict", title |-> nodeList[id].title, level |-> nodeList[id].level,
     content |-> JsonList(nodeList[id].content), images |-> JsonList(nodeList[id].images),
     subsections |-> [k \in 1..Len(nodeList[id].subsections) |->
                         NestedNode(nodeList, nodeList[id].subsections[k])]]

\* doc_result.text.split('\n'): the paragraphs of every cell of every item
\* of the body, in document order
RECURSIVE Flatten(_)
Flatten(seqs) == IF seqs = <<>> THEN <<>> ELSE Head(seqs) \o Flatten(Tail(seqs))

BodyLines(body_data) == Flatten(Flatten(Flatten(body_data)))

\* the base name of the input file
SopId == <<"S">>

\* the most items the body of the document has
MaxItems == 4

\* a run of text outside the tables: docx2python gives it as a table of one
\* row and one cell
TextItem(line) == << << <<line>> >> >>

JsonTexts ==
    { <<"1", ".", " ", "A">>, <<"1", ".", "1", " ", "B">>, <<"1", ".", "1", ".", "1", " ", "C">>, <<"x">>, <<" ">>, <<"y", ImagePlaceholder>> }

\* a table of two rows: a cell of one paragraph and one of two, then a row
\* shorter than the header
TwoRowTable ==
    << << << <<"a">> >>, << <<"b">>, <<"c">> >> >>,
       << << <<" ", "d">> >> >> >>

BodyItems == { TextItem(t) : t \in JsonTexts } \cup { TwoRowTable }

InitJson ==
    /\ document_body \in UNION {[1..n -> BodyItems] : n \in 0..MaxItems}
    /\ document_lines = BodyLines(document_body)
    /\ heading_nodes = <<>>
    /\ sections = <<>>
    /\ heading_stack = <<>>
    /\ blk = 1
    /\ pc = "json"
    /\ IdlePipeline /\ IdleTable /\ IdleBatch /\ IdleCsv
    /\ cl_par = IdlePara
    /\ cl_res = IdleRes

\* lines 339-369: the loop over the lines
ReadLine ==
    /\ pc = "json"
    /\ blk <= Len(document_lines)
    /\ LET js == JsonLine([stack |-> heading_stack, nodes |-> heading_nodes,
                           sections |-> sections], document_lines[blk], SopId)
       IN  /\ heading_stack' = js.stack
           /\ heading_nodes' = js.nodes
           /\ sections' = js.sections
    /\ blk' = blk + 1
    /\ UNCHANGED <<pipeline_only, pc, document_body, document_lines, table_vars,
                   batch_vars, csv_vars>>

\* lines 371-427: the tables, and the dictionary returned
ReturnJson ==
    /\ pc = "json"
    /\ blk > Len(document_lines)
    /\ heading_nodes' = TablesAttached(heading_nodes, heading_stack,
                                       ExtractTablesFromBody(document_body))
    /\ json_root' = [sop_id |-> SopId, sop_name |-> SopName(document_lines, SopId),
                     sections |-> [k \in 1..Len(sections) |->
                                      NestedNode(heading_nodes', sections[k])]]
    /\ pc' = "json_done"
    /\ UNCHANGED <<pipeline_only, blk, heading_stack, document_body, document_lines,
                   sections, csv_rows, table_vars, batch_vars>>

NextJson ==
    \/ ReadLine
    \/ ReturnJson

SpecJson == InitJson /\ [][NextJson]_vars


-----------------------------------------------------------------------------
(* Properties of the main pass                                               *)

\* C1: after every prefix of the block stream the levels of the headings in
\* heading_stack strictly increase from bottom to top (every entry of level
\* >= L is gone when a heading of level L is pushed).
C1_StackLevelsIncrease ==
    \A k \in 1..(Len(heading_stack) - 1) :
        heading_stack[k].level < heading_stack[k + 1].level

\* the block-open text "[图: <filename>" of picture n
ReferenceOf(n) == BracketOpen \o ordered_images[n].filename

\* C2: when the pipeline has run, the reference block of every extracted
\* picture is in the text of some chunk.
C2_EveryImageEmbedded ==
    pc = "done" =>
        \A n \in 1..Len(ordered_images) :
            \E k \in 1..Len(chunks) : Contains(chunks[k].chunk, ReferenceOf(n))

\* no paragraph of d is classified as a heading
NoHeadings(d) == \A i \in 1..Len(d) : IsTable(d[i]) \/ ~IsHeadingParagraph(d[i])

NoTables(d) == \A i \in 1..Len(d) : ~IsTable(d[i])

\* C3: content before the first heading is never emitted: a document of
\* paragraphs without a heading yields no chunk, and every chunk of the main
\* pass opens with the title of a heading the pass has processed.
C3_NoPreHeadingContent ==
    /\ pc = "done" /\ NoHeadings(doc) /\ NoTables(doc) => chunks = <<>>
    /\ pc \in {"main", "tables"} =>
           \A k \in 1..Len(chunks) :
               \E j \in 1..Len(heading_log) :
                   FirstLine(chunks[k].chunk) = heading_log[j].title

PurposeTitle == <<"1", ".", " ", "u76EE", "u7684">>   \* 1. 目的

ScopeTitle == <<"2", ".", "1", " ", "u9002", "u7528", "u8303", "u56F4">>   \* 2.1 适用范围

\* the chunks of the two sections of HeadingsTextTable
TwoSectionChunks ==
    /\ Len(chunks) = 3
    /\ chunks[1].section_path = PurposeTitle
    /\ chunks[1].chunk = PurposeTitle
    /\ chunks[2].section_path = ScopeTitle
    /\ chunks[2].chunk = ScopeTitle \o <<"\n">> \o PlainText.text

\* C4 (as stated): headings "1. 目的" and "2.1 适用范围", paragraph "do X" and a
\* table give exactly 3 chunks, the table chunk with section_path "2.1 适用范围".
C4_TableUnderLeafOnly ==
    pc = "done" /\ doc = HeadingsTextTable =>
        TwoSectionChunks /\ chunks[3].section_path = ScopeTitle

\* C4 (amended): the same document gives exactly 3 chunks: "1. 目的", then
\* "2.1 适用范围" with "do X", then the table chunk, whose section_path is the
\* whole heading path "1. 目的 > 2.1 适用范围" and whose text opens with the leaf.
C4_TableUnderHeadingPath ==
    pc = "done" /\ doc = HeadingsTextTable =>
        /\ TwoSectionChunks
        /\ chunks[3].section_path = PurposeTitle \o PathSep \o ScopeTitle
        /\ chunks[3].chunk = ScopeTitle \o <<"\n", "\n", "|", " ", "a", " ", "|", "\n", "|", " ", "-", "-", "-", " ", "|">>

C4_Witness ==
    pc = "done" /\ doc = HeadingsTextTable /\ Len(chunks) = 3


-----------------------------------------------------------------------------
(* Properties of the heading classifier                                      *)

\* the number of dots in the numeral D(.D)* a text starts with
DotCount(text) == CountChar(Take(text, DottedPrefixLen(text)), ".")

\* the classified paragraph has no heading style and starts with a numeral
NumberedPlain ==
    /\ pc = "classified"
    /\ ~StyleIsHeading(cl_par.style)
    /\ DottedPrefixLen(Strip(cl_par.text)) > 0

\* C5 (as stated): a paragraph without heading style whose text starts with
\* a numeral D(.D)* is a heading, of level dots + 1.
C5_LevelIsDotsPlusOne ==
    NumberedPlain =>
        cl_res.heading /\ cl_res.level = DotCount(Strip(cl_par.text)) + 1

\* C5 (amended): with at least one dot in the numeral the paragraph is a
\* heading of level dots + 1, capped at 10; with no dot the level is 1, and
\* the paragraph is a heading only if ")" or "." follows the number.
C5_LevelFromDotsCapped ==
    NumberedPlain =>
        LET text == Strip(cl_par.text)
            dots == DotCount(text)
        IN  /\ dots >= 1 => cl_res.heading /\ cl_res.level = Min(dots + 1, MaxTextLevel)
            /\ dots = 0 => /\ cl_res.level = 1
                           /\ cl_res.heading => MatchesNumParen(text) \/ MatchesNumDot(text)

C5_Witness ==
    /\ NumberedPlain
    /\ DotCount(Strip(cl_par.text)) = 2
    /\ cl_res.heading
    /\ cl_res.level = 3

-----------------------------------------------------------------------------
(* Properties of captions, numbering, tables and binding                     *)

\* the main pass is about to process a paragraph whose text is a caption
AtCaptionParagraph ==
    /\ pc = "main"
    /\ blk <= Len(doc)
    /\ IsParagraph(doc[blk])
    /\ Strip(doc[blk].text) \in caption_set

\* C6 (as stated): processing a paragraph whose text equals a recorded
\* caption leaves current_content_buffer, heading_stack, heading_counters
\* and chunks unchanged.
C6_CaptionParagraphInert ==
    [][AtCaptionParagraph =>
           UNCHANGED <<current_content_buffer, heading_stack, heading_counters, chunks>>]_vars

\* C6 (amended): a paragraph classified as a heading whose text equals a
\* recorded caption leaves buffer, stack, counters and chunks unchanged; any
\* other paragraph whose text equals a caption leaves stack, counters and
\* chunks unchanged (its text joins the buffer).
C6_CaptionHeadingSkipped ==
    [][AtCaptionParagraph =>
           /\ UNCHANGED <<heading_stack, heading_counters, chunks>>
           /\ IsHeadingParagraph(doc[blk]) => UNCHANGED current_content_buffer
           /\ ~IsHeadingParagraph(doc[blk]) =>
                  current_content_buffer' = Append(current_content_buffer, Strip(doc[blk].text))]_vars

\* a caption heading has just been passed over with lines waiting in the buffer
C6_Witness ==
    /\ pc = "main"
    /\ blk > 1
    /\ IsParagraph(doc[blk - 1])
    /\ IsHeadingParagraph(doc[blk - 1])
    /\ Strip(doc[blk - 1].text) \in caption_set
    /\ current_content_buffer /= <<>>
    /\ heading_log = <<>>

\* a is before b in the lexicographic order of number lists
LexLess(a, b) ==
    \/ Len(a) < Len(b) /\ \A k \in 1..Len(a) : a[k] = b[k]
    \/ \E k \in 1..Min(Len(a), Len(b)) :
           a[k] < b[k] /\ \A j \in 1..(k - 1) : a[j] = b[j]

\* headings i < j of one level under one parent, no shallower heading between
Siblings(i, j) ==
    /\ i < j
    /\ heading_log[i].level = heading_log[j].level
    /\ Len(heading_log[i].counters) = Len(heading_log[j].counters)
    /\ heading_log[i].counters /= <<>>
    /\ \A k \in 1..(Len(heading_log[i].counters) - 1) :
           heading_log[i].counters[k] = heading_log[j].counters[k]
    /\ \A m \in i..j : heading_log[m].level >= heading_log[i].level

\* C7 (as stated): an automatically assigned number never equals the number
\* of another heading of the document, and the numbers of successive
\* headings of one level under one parent strictly increase.
C7_NumbersNeverOverlap ==
    /\ \A i, j \in 1..Len(heading_log) :
           i /= j /\ heading_log[j].auto =>
               heading_log[i].counters /= heading_log[j].counters
    /\ \A i, j \in 1..Len(heading_log) :
           Siblings(i, j) => Last(heading_log[i].counters) < Last(heading_log[j].counters)

\* C7 (amended): an automatically assigned number is always after the number
\* of the heading before it, in lexicographic order; so while every heading
\* is numbered automatically no two headings share a number.  (An explicit
\* numeral replaces the counters and may repeat an earlier number.)
C7_AutoNumbersIncrease ==
    /\ \A j \in 1..Len(heading_log) :
           heading_log[j].auto =>
               LexLess(IF j = 1 THEN <<>> ELSE heading_log[j - 1].counters,
                       heading_log[j].counters)
    /\ (\A j \in 1..Len(heading_log) : heading_log[j].auto) =>
           \A i, j \in 1..Len(heading_log) :
               i /= j => heading_log[i].counters /= heading_log[j].counters

C7_Witness ==
    /\ Len(heading_log) = 3
    /\ ~heading_log[1].auto
    /\ heading_log[2].auto
    /\ heading_log[3].auto
    /\ heading_log[3].level < heading_log[2].level

\* the ordinal of the table at block i among the tables of d
TableOrdinal(d, i) == Cardinality({j \in 1..i : IsTable(d[j])})

\* C8: at every table the path the pre-pass recorded for it is the main
\* pass's heading_stack joined with " > ".
C8_PrePassFollowsMainPass ==
    pc = "main" /\ blk <= Len(doc) /\ IsTable(doc[blk]) =>
        table_position_section[TableOrdinal(doc, blk)] = Join(Titles(heading_stack), PathSep)

\* the leaf titles of the heading paths the pre-pass recorded
HeadingLeaves ==
    {LeafTitle(table_position_section[t]) :
         t \in {u \in 1..Len(table_position_section) : table_position_section[u] /= <<>>}}

TableLabel(leaf, n) == leaf \o <<" ", "-", " ", "u8868", "u683C", " ">> \o StrOf(n)   \*  - 表格 

\* C9: when several tables fall under one heading, their chunks carry the
\* labels "<leaf> - 表格 1", "<leaf> - 表格 2", ... of the per-leaf counter.
C9_TableLabelsCarryCounter ==
    pc = "forced" =>
        \A leaf \in DOMAIN table_counter_map :
            table_counter_map[leaf] >= 2 /\ leaf \in HeadingLeaves =>
                \A n \in 1..table_counter_map[leaf] :
                    \E k \in 1..Len(chunks) :
                        FirstLine(chunks[k].chunk) = TableLabel(leaf, n)

\* C10: after the binding pass, a picture whose forced section matches some
\* chunk is embedded only in a chunk its forced section matches.
C10_ForcedSectionFirst ==
    pc = "clean" =>
        \A n \in 1..Len(ordered_images) :
            (\E k \in 1..Len(chunks) :
                 ForcedMatches(ordered_images[n], chunks[k].section_path)) =>
                \A k \in 1..Len(chunks) :
                    Contains(chunks[k].chunk, ReferenceOf(n)) =>
                        ForcedMatches(ordered_images[n], chunks[k].section_path)

-----------------------------------------------------------------------------
(* Properties of the table pass and of the result                            *)

\* the blocks of d that are tables with at least one row
RowTableBlocks(d) == {i \in 1..Len(d) : IsTable(d[i]) /\ d[i].rows /= <<>>}

\* the chunk the table pass appended for the table at block i: the table
\* chunks are the last chunks, in the order of the tables
TableChunk(i) ==
    chunks[Len(chunks) - Cardinality(RowTableBlocks(doc))
               + Cardinality({j \in RowTableBlocks(doc) : j <= i})]

\* C11: the chunk of a table with rows has as section_path the path the
\* pre-pass recorded at that table when that path is not empty, and else the
\* section identify_table_section names for its content ("未知章节" included).
C11_TableUsesPositionPath ==
    pc = "forced" =>
        \A i \in RowTableBlocks(doc) :
            LET position_path == table_position_section[TableOrdinal(doc, i)]
            IN  TableChunk(i).section_path =
                    IF position_path /= <<>> THEN position_path
                    ELSE IdentifyTableSection(TableToMarkdown(doc[i].rows))

\* the first paragraph of d with text (0: none)
FirstTextBlock(d) ==
    LET has(i) == IsParagraph(d[i]) /\ Strip(d[i].text) /= <<>>
    IN  IF \E i \in 1..Len(d) : has(i)
        THEN CHOOSE i \in 1..Len(d) : has(i) /\ \A j \in 1..(i - 1) : ~has(j)
        ELSE 0

\* d has text, no heading and no table with rows, and its text does not
\* open with a digit
UnstructuredText(d) ==
    /\ NoHeadings(d)
    /\ RowTableBlocks(d) = {}
    /\ FirstTextBlock(d) /= 0
    /\ ~IsDigit(Strip(d[FirstTextBlock(d)].text)[1])

\* C12 (as stated): every document with text, one without any heading
\* included, ends with the result True.
C12_AlwaysSucceeds ==
    pc = "done" /\ FirstTextBlock(doc) /= 0 => result = "True"

\* C12 (amended): the result is True exactly when at least one chunk was
\* produced.  Text before the first heading is dropped, so a document of
\* text without a heading (not opening with a digit) and without a table
\* with rows yields no chunk and the result False; a table with rows always
\* yields a chunk and the result True.
C12_SucceedsIffChunks ==
    pc = "done" =>
        /\ result = "True" <=> chunks /= <<>>
        /\ UnstructuredText(doc) => result = "False"
        /\ RowTableBlocks(doc) /= {} => result = "True"

C12_Witness ==
    /\ pc = "done"
    /\ UnstructuredText(doc)
    /\ result = "False"
    /\ chunks = <<>>

-----------------------------------------------------------------------------
(* Properties of paragraphs without text                                     *)

\* the main pass is about to process a paragraph whose stripped text is empty
AtEmptyParagraph ==
    /\ pc = "main"
    /\ blk <= Len(doc)
    /\ IsParagraph(doc[blk])
    /\ Strip(doc[blk].text) = <<>>

\* C13 (as stated): a paragraph without text is no heading whatever its
\* style, and processing it leaves buffer, chunks, heading_stack and
\* heading_counters as they are.
C13_EmptyNeverHeading ==
    [][AtEmptyParagraph =>
           /\ ~IsHeadingParagraph(doc[blk])
           /\ UNCHANGED <<current_content_buffer, chunks, heading_stack, heading_counters>>]_vars

\* C13 (amended): a paragraph without text is a heading exactly when its
\* style names a heading.  Without such a style it leaves buffer, chunks,
\* stack and counters as they are; with one it is numbered like any heading
\* without numeral: the counters advance, the number alone (with "." at
\* level 1) is its title, goes on the stack and opens a new buffer.
C13_EmptyHeadingByStyle ==
    [][AtEmptyParagraph =>
           /\ IsHeadingParagraph(doc[blk]) <=> StyleIsHeading(doc[blk].style)
           /\ ~StyleIsHeading(doc[blk].style) =>
                  UNCHANGED <<current_content_buffer, chunks, heading_stack, heading_counters>>
           /\ StyleIsHeading(doc[blk].style) =>
                  LET title == NumberStr(heading_counters')
                                   \o (IF GetHeadingLevel(doc[blk]) = 1 THEN <<".">> ELSE <<>>)
                  IN  /\ heading_counters' /= heading_counters
                      /\ Len(heading_counters') = GetHeadingLevel(doc[blk])
                      /\ heading_stack' /= <<>>
                      /\ Last(heading_stack').title = title
                      /\ current_content_buffer' = <<title>>]_vars

\* a styled paragraph without text has just closed the section before it
C13_Witness ==
    /\ pc = "main"
    /\ blk > 1
    /\ doc[blk - 1] = EmptyHeading
    /\ chunks /= <<>>
    /\ heading_stack /= <<>>
    /\ Last(heading_stack).title = NumberStr(heading_counters) \o <<".">>
    /\ current_content_buffer = <<Last(heading_stack).title>>

-----------------------------------------------------------------------------
(* Properties of the caption cleanup                                         *)

\* the text of a chunk before its first picture block
Prose(text) == SubSeq(text, 1, Find(text, BracketMark) - 1)

\* a line of the prose of text, not opening with a digit, is one of the
\* captions shown in the picture blocks of text
RepeatsCaption(text) ==
    \E k \in 1..Len(SplitAt(Prose(text), "\n")) :
        LET line == Strip(SplitAt(Prose(text), "\n")[k])
        IN  /\ line /= <<>>
            /\ ~IsDigit(line[1])
            /\ line \in BracketCaptions(text, 1)

\* C14: when the pipeline has run, no chunk with a picture block has in its
\* prose a line that repeats a caption shown in one of its picture blocks,
\* whichever binding gave it the picture.  (Lines that open with a digit,
\* which the cleanup keeps on purpose, are not counted.)
C14_NoCaptionLeftInProse ==
    pc = "done" =>
        \A k \in 1..Len(chunks) :
            Contains(chunks[k].chunk, BracketMark) => ~RepeatsCaption(chunks[k].chunk)

\* the text from its first "[图:" on
FromMark(text) == Drop(text, Find(text, BracketMark))

\* C15: cleaning a cleaned text changes nothing; the cleanup leaves a text
\* without "[图:" as it is, and of any other text the part from the first
\* "[图:" on.
C15_CleanIdempotent ==
    [][/\ pc = "attach" /\ pc' = "recleaned" => chunks' = chunks
       /\ pc = "clean" =>
              \A k \in 1..Len(chunks) :
                  LET t == chunks[k].chunk
                      c == chunks'[k].chunk
                  IN  IF Contains(t, BracketMark)
                      THEN Contains(c, BracketMark) /\ FromMark(c) = FromMark(t)
                      ELSE c = t]_vars

\* a chunk with a caption in a picture block has lost lines of its prose
\* to the first cleanup and has been cleaned again
C15_Witness ==
    /\ pc = "recleaned"
    /\ BracketCaptions(chunks[1].chunk, 1) /= {}
    /\ current_content_buffer /= <<>>
    /\ \A i \in 1..Len(current_content_buffer) :
           ~Contains(current_content_buffer[i], BracketMark)
    /\ Len(SplitAt(Prose(chunks[1].chunk), "\n")) < Len(current_content_buffer) + 2

-----------------------------------------------------------------------------
(* Properties of the caption search                                          *)

\* image_info as the first pass of the extraction leaves it
FirstPassInfo == ExtractFrom(Paragraphs(doc), doc_name, 1, <<>>)

\* the indices of the caption-shaped paragraphs of the document
CaptionShaped ==
    {i \in 1..Len(Paragraphs(doc)) : IsCaptionText(Strip(Paragraphs(doc)[i].text))}

\* the extraction has run, and the first pass left picture n without a
\* caption although the document has caption-shaped paragraphs
LeftToSecondPass(n) ==
    /\ pc = "prescan"
    /\ n \in 1..Len(image_info)
    /\ FirstPassInfo[n].caption = <<>>
    /\ CaptionShaped /= {}

\* C16 (as stated): such a picture gets the nearest caption-shaped paragraph
\* at or before its own.
C16_NearestPreceding ==
    \A n \in 1..Len(image_info) :
        LeftToSecondPass(n) =>
            LET ci == image_info[n].caption_index
                para_idx == image_info[n].para_index
            IN  /\ ci \in CaptionShaped
                /\ ci <= para_idx
                /\ \A c \in CaptionShaped : c <= para_idx => c <= ci

\* C16 (amended): such a picture gets the caption-shaped paragraph nearest
\* to its own on either side, and of two equally near the one before it.
C16_NearestEitherSide ==
    \A n \in 1..Len(image_info) :
        LeftToSecondPass(n) =>
            LET ci == image_info[n].caption_index
                para_idx == image_info[n].para_index
            IN  /\ ci \in CaptionShaped
                /\ image_info[n].caption = Strip(Paragraphs(doc)[ci].text)
                /\ \A c \in CaptionShaped :
                       \/ Abs(ci - para_idx) < Abs(c - para_idx)
                       \/ Abs(ci - para_idx) = Abs(c - para_idx) /\ ci <= c

\* a picture between two equally near caption-shaped paragraphs has taken
\* the one before it
C16_Witness ==
    \E n \in 1..Len(image_info) :
        /\ LeftToSecondPass(n)
        /\ image_info[n].caption_index < image_info[n].para_index
        /\ \E c \in CaptionShaped :
               /\ c > image_info[n].para_index
               /\ c - image_info[n].para_index
                      = image_info[n].para_index - image_info[n].caption_index

\* the first pass found a caption for picture n
CaptionedByFirstPass(n) ==
    /\ pc = "prescan"
    /\ n \in 1..Len(image_info)
    /\ FirstPassInfo[n].caption /= <<>>

\* the candidates of picture n
CandidatesOf(n) == Candidates(Paragraphs(doc), image_info[n].para_index)

\* the caption of picture n is a candidate of greatest score and, among
\* those, of least distance to the picture
TopRanked(n) ==
    LET i == image_info[n].para_index
        cands == CandidatesOf(n)
    IN  \E k \in 1..Len(cands) :
            /\ cands[k].text = image_info[n].caption
            /\ cands[k].idx = image_info[n].caption_index
            /\ \A j \in 1..Len(cands) :
                   \/ cands[j].score < cands[k].score
                   \/ /\ cands[j].score = cands[k].score
                      /\ Abs(cands[k].idx - i) <= Abs(cands[j].idx - i)

\* the score of an alt text
AltScore == 4

\* alt text, when the picture has some, is the caption
AltWins(n) ==
    LET alts == Paragraphs(doc)[image_info[n].para_index].alt
    IN  (\E a \in 1..Len(alts) : Strip(alts[a]) /= <<>>) =>
            \E a \in 1..Len(alts) : image_info[n].caption = Strip(alts[a])

\* a paragraph strictly between paragraphs i and j satisfies Stops
StopBetween(i, j, Stops(_)) ==
    \E m \in 1..Len(Paragraphs(doc)) :
        /\ (i < m /\ m < j) \/ (j < m /\ m < i)
        /\ Stops(Paragraphs(doc)[m])

HeadingWithText(p) == IsHeadingParagraph(p) /\ Strip(p.text) /= <<>>

\* C17 (as stated): the caption the first pass keeps is top ranked, alt text
\* wins, and every paragraph candidate lies within CaptionWindow paragraphs
\* of the picture, is no heading paragraph and has no heading paragraph
\* between itself and the picture.
C17_RankedNeverFromHeading ==
    \A n \in 1..Len(image_info) :
        CaptionedByFirstPass(n) =>
            /\ TopRanked(n)
            /\ AltWins(n)
            /\ \A k \in 1..Len(CandidatesOf(n)) :
                   LET c == CandidatesOf(n)[k]
                       i == image_info[n].para_index
                   IN  /\ Abs(c.idx - i) <= CaptionWindow
                       /\ c.score < AltScore =>
                              /\ ~IsHeadingParagraph(Paragraphs(doc)[c.idx])
                              /\ ~StopBetween(i, c.idx, IsHeadingParagraph)

\* C17 (amended): the caption the first pass keeps is top ranked and alt
\* text wins; every paragraph candidate lies within CaptionWindow paragraphs
\* of the picture; the text of the picture's own paragraph is a candidate
\* whatever that paragraph is; a neighbour that is a candidate is no
\* heading paragraph and has no heading paragraph with text between itself
\* and the picture.
C17_RankedNeighboursNotHeadings ==
    \A n \in 1..Len(image_info) :
        CaptionedByFirstPass(n) =>
            /\ TopRanked(n)
            /\ AltWins(n)
            /\ \A k \in 1..Len(CandidatesOf(n)) :
                   LET c == CandidatesOf(n)[k]
                       i == image_info[n].para_index
                   IN  /\ Abs(c.idx - i) <= CaptionWindow
                       /\ c.score < AltScore /\ c.idx /= i =>
                              /\ ~IsHeadingParagraph(Paragraphs(doc)[c.idx])
                              /\ ~StopBetween(i, c.idx, HeadingWithText)
            /\ LET own == Paragraphs(doc)[image_info[n].para_index]
               IN  Strip(own.text) /= <<>> =>
                       \E k \in 1..Len(CandidatesOf(n)) :
                           CandidatesOf(n)[k].text = Strip(own.text)

\* the numbered figure line two paragraphs before the picture has beaten the
\* plain text next to it
C17_Witness ==
    /\ pc = "prescan"
    /\ doc = FigureBehindText
    /\ image_info[1].caption = FigureCaption.text
    /\ image_info[1].caption_index = 1
    /\ image_info[1].para_index = 3

-----------------------------------------------------------------------------
(* Properties of the numbering                                               *)

\* the main pass has just processed the heading at block blk - 1 (a heading
\* whose text is a recorded caption is passed over, not processed)
JustProcessedHeading ==
    /\ pc = "main"
    /\ blk > 1
    /\ IsParagraph(doc[blk - 1])
    /\ IsHeadingParagraph(doc[blk - 1])
    /\ Strip(doc[blk - 1].text) \notin caption_set

\* the text and the level of that heading
ProcessedText == Strip(doc[blk - 1].text)

ProcessedLevel == GetHeadingLevel(doc[blk - 1])

\* heading_counters before that heading
CountersBefore ==
    IF Len(heading_log) >= 2 THEN heading_log[Len(heading_log) - 1].counters ELSE <<>>

\* C18: after a heading whose text opens with a numeral n1.n2...nk,
\* heading_counters is n1, ..., nk (joined by dots it is that numeral), the
\* title is the text as it was, and a heading without numeral that follows
\* is numbered from there.
C18_ExplicitNumeralSyncs ==
    /\ JustProcessedHeading /\ DottedPrefixLen(ProcessedText) > 0 =>
           /\ NumberStr(heading_counters) = Take(ProcessedText, DottedPrefixLen(ProcessedText))
           /\ Len(heading_counters) = DotCount(ProcessedText) + 1
           /\ Last(heading_stack).title = ProcessedText
           /\ Last(heading_log).title = ProcessedText
           /\ current_content_buffer = <<ProcessedText>>
    /\ \A j \in 2..Len(heading_log) :
           /\ ~heading_log[j - 1].auto
           /\ heading_log[j].auto
           /\ heading_log[j].level = Len(heading_log[j - 1].counters)
           => heading_log[j].counters =
                  [heading_log[j - 1].counters EXCEPT ![heading_log[j].level] = @ + 1]

\* "2.1 适用范围" set the counters to 2, 1 and the styled heading after it
\* has become "2.2 范围"
C18_Witness ==
    /\ JustProcessedHeading
    /\ Len(heading_log) = 2
    /\ heading_log[1].title = ScopeTitle
    /\ heading_log[1].counters = <<2, 1>>
    /\ heading_log[2].auto
    /\ heading_counters = <<2, 2>>
    /\ Last(heading_stack).title = <<"2", ".", "2", " ", "u8303", "u56F4">>   \* 2.2 范围

\* the counters sized to level L: cut, or filled up with zeros
SizedTo(counters, L) ==
    [k \in 1..L |-> IF k <= Len(counters) THEN counters[k] ELSE 0]

\* the last heading processed has no digit at the start of its text
ProcessedUnnumbered(texts) ==
    /\ JustProcessedHeading
    /\ ProcessedText \in texts
    /\ ProcessedText = <<>> \/ ~IsDigit(ProcessedText[1])
    /\ ProcessedLevel >= 1

\* what C19 says of such a heading, for the texts given
NumberedByLevel(texts) ==
    ProcessedUnnumbered(texts) =>
        LET L == ProcessedLevel
            sized == SizedTo(CountersBefore, L)
        IN  /\ Len(heading_counters) = L
            /\ heading_counters = [sized EXCEPT ![L] = @ + 1]
            /\ Last(heading_stack).title =
                   NumberStr(heading_counters)
                       \o (IF L = 1 THEN <<".", " ">> ELSE <<" ">>) \o ProcessedText

\* every stripped text of a paragraph of the document
AllTexts == {Strip(doc[i].text) : i \in {j \in 1..Len(doc) : IsParagraph(doc[j])}}

\* two unnumbered headings of one level in a row get consecutive numbers
ConsecutiveNumbers ==
    \A j \in 2..Len(heading_log) :
        /\ heading_log[j - 1].auto
        /\ heading_log[j].auto
        /\ heading_log[j - 1].level = heading_log[j].level
        => /\ Len(heading_log[j].counters) = Len(heading_log[j - 1].counters)
           /\ \A k \in 1..(Len(heading_log[j].counters) - 1) :
                  heading_log[j].counters[k] = heading_log[j - 1].counters[k]
           /\ Last(heading_log[j].counters) = Last(heading_log[j - 1].counters) + 1

\* C19 (as stated): a heading of level L whose text does not open with a
\* digit sizes heading_counters to L, adds one to the last counter and gets
\* the title "<number>. <text>" (L = 1) or "<number> <text>" (L > 1); two
\* such headings of one level in a row get consecutive numbers.
C19_AutoNumberAndTitle ==
    NumberedByLevel(AllTexts) /\ ConsecutiveNumbers

\* C19 (amended): the same for a heading with text; a heading without text
\* gets the number alone as title, followed by "." when L = 1.
C19_AutoNumberTitleWithText ==
    /\ NumberedByLevel(AllTexts \ {<<>>})
    /\ ConsecutiveNumbers
    /\ ProcessedUnnumbered({<<>>}) =>
           /\ heading_counters = [SizedTo(CountersBefore, ProcessedLevel)
                                      EXCEPT ![ProcessedLevel] = @ + 1]
           /\ Last(heading_stack).title =
                  NumberStr(heading_counters)
                      \o (IF ProcessedLevel = 1 THEN <<".">> ELSE <<>>)

\* a second unnumbered heading of level 2 has been padded and numbered 0.2
C19_Witness ==
    /\ ProcessedUnnumbered({StyledHeading.text})
    /\ Len(heading_log) = 2
    /\ heading_log[1].auto
    /\ heading_log[1].counters = <<0, 1>>
    /\ heading_counters = <<0, 2>>
    /\ Last(heading_stack).title = <<"0", ".", "2", " ", "u8303", "u56F4">>   \* 0.2 范围

-----------------------------------------------------------------------------
(* Properties of the styles                                                  *)

\* the style names "Heading N", "标题 N" and "HN" of the classified
\* paragraphs, with the N they name
LevelStyles ==
    { <<Heading2Style, 2>>, <<NumberedTitleStyle, 3>>, <<ShortStyle, 2>> }

\* C20: a paragraph whose style names heading level N is a heading of level
\* N, whatever numeral or keyword its text has.
C20_StyleLevelWins ==
    pc = "classified" =>
        \A sl \in LevelStyles :
            cl_par.style = sl[1] => cl_res.heading /\ cl_res.level = sl[2]

\* a paragraph of style "标题 3" whose text opens with a five-part numeral,
\* which alone would make it a level 5 heading, is classified at level 3
C20_Witness ==
    /\ pc = "classified"
    /\ cl_par.style = NumberedTitleStyle
    /\ DotCount(Strip(cl_par.text)) = 4
    /\ cl_res.heading
    /\ cl_res.level = 3

-----------------------------------------------------------------------------
(* Properties of table_to_markdown                                           *)

\* the cells of one line of pipe-delimited text: what stands between the
\* pipes, trimmed
ParsedLine(line) ==
    LET parts == SplitAt(line, "|")
    IN  [c \in 1..(Len(parts) - 2) |-> Strip(parts[c + 1])]

\* the grid read back from pipe-delimited text: the first line is the header,
\* the second the separator, the remaining lines are the data
ParsedGrid(text) ==
    IF text = <<>> THEN <<>>
    ELSE LET ls == SplitAt(text, "\n")
         IN  <<ParsedLine(ls[1])>> \o [r \in 1..(Len(ls) - 2) |-> ParsedLine(ls[r + 2])]

\* the grid with every cell text trimmed
TrimmedGrid(grid) ==
    [r \in 1..Len(grid) |-> [c \in 1..Len(grid[r]) |-> Strip(grid[r][c])]]

\* C21: the text table_to_markdown returns for a table, read back as
\* pipe-delimited text (header, separator, data), is the table's grid again:
\* as many rows, as many cells in each row, the same trimmed cell texts.
C21_TableRoundTrip ==
    pc = "converted" => ParsedGrid(table_markdown) = TrimmedGrid(docx_table)

-----------------------------------------------------------------------------
(* Properties of batch_process_annotated_documents                           *)

\* the documents that did not return True among the first n
RECURSIVE FailedAmong(_, _)
FailedAmong(files, n) ==
    IF n = 0 THEN 0
    ELSE FailedAmong(files, n - 1) + (IF files[n].outcome = "True" THEN 0 ELSE 1)

\* C22: the batch attempts every document found once and in order; a
\* document that raises or returns a failure adds one to error_count and the
\* loop goes on with the next document; when the batch ends success_count +
\* error_count is the number of documents found.
C22_EveryDocumentCounted ==
    /\ file_no - 1 <= Len(all_files)
    /\ attempted = [n \in 1..(file_no - 1) |-> all_files[n].name]
    /\ error_count = FailedAmong(all_files, file_no - 1)
    /\ success_count + error_count = file_no - 1
    /\ pc = "batch_done" =>
           /\ Len(attempted) = Len(all_files)
           /\ success_count + error_count = Len(all_files)

\* a batch has ended in which a document raised, the next returned a failure
\* and the one after it succeeded
C22_Witness ==
    /\ pc = "batch_done"
    /\ \E n \in 1..(Len(all_files) - 2) :
           /\ all_files[n].outcome = "raise"
           /\ all_files[n + 1].outcome = "False"
           /\ all_files[n + 2].outcome = "True"
    /\ error_count >= 2
    /\ success_count >= 1

-----------------------------------------------------------------------------
(* Properties of iter_chunks                                                 *)

\* the nodes of a forest, each named by the positions that lead to it
RECURSIVE Addresses(_)
Addresses(children) ==
    UNION { {<<i>>} \cup { <<i>> \o a : a \in Addresses(children[i].subsections) } :
            i \in { j \in 1..Len(children) : children[j].type = "dict" } }

RECURSIVE NodeAt(_, _)
NodeAt(children, a) ==
    IF Len(a) = 1 THEN children[a[1]]
    ELSE NodeAt(children[a[1]].subsections, Tail(a))

\* b comes before a in pre-order: it is an ancestor of a, or it branches off
\* to the left of a
PreOrderBefore(b, a) ==
    /\ b /= a
    /\ \/ Len(b) < Len(a) /\ SubSeq(a, 1, Len(b)) = b
       \/ \E k \in 1..Min(Len(a), Len(b)) :
              /\ SubSeq(a, 1, k - 1) = SubSeq(b, 1, k - 1)
              /\ b[k] < a[k]

\* the nodes of the tree walked whose merged content is not empty
Emitting ==
    { a \in Addresses(json_root.sections) :
          MergedText(NodeAt(json_root.sections, a).content) /= <<>> }

\* the place in pre-order of a node among those with content
RowOf(a) == Cardinality({ b \in Emitting : PreOrderBefore(b, a) }) + 1

\* the titles from the top-level ancestor of a node down to the node
TitlesDownTo(a) ==
    [k \in 1..Len(a) |-> NodeAt(json_root.sections, SubSeq(a, 1, k)).title]

\* C23: iter_chunks yields one row for every node with merged content, none
\* for the others, in pre-order, and the section_path of a row is the
\* ' > ' join of the titles, as the tree holds them, that are not the empty
\* string, from the top-level ancestor down to the node.
C23_PathOfTitlesAsHeld ==
    pc = "walked" =>
        /\ Len(csv_rows) = Cardinality(Emitting)
        /\ \A a \in Emitting :
               /\ csv_rows[RowOf(a)].text = MergedText(NodeAt(json_root.sections, a).content)
               /\ csv_rows[RowOf(a)].section_path = Join(Truthy(TitlesDownTo(a)), PathSep)

\* C23 as amended: the same, with the titles trimmed first and those that
\* are blank left out.
C23_PathOfTrimmedTitles ==
    pc = "walked" =>
        /\ Len(csv_rows) = Cardinality(Emitting)
        /\ \A a \in Emitting :
               /\ csv_rows[RowOf(a)].text = MergedText(NodeAt(json_root.sections, a).content)
               /\ csv_rows[RowOf(a)].section_path =
                      Join(Truthy([k \in 1..Len(a) |-> Strip(TitlesDownTo(a)[k])]), PathSep)

\* a tree three levels deep was walked: a node without content gave no row,
\* a node below it gave a row whose path names three titles, one of them
\* trimmed, and a node with a blank title gave a row
C23_Witness ==
    /\ pc = "walked"
    /\ \E a \in Emitting :
           /\ Len(a) = 3
           /\ SubSeq(a, 1, 2) \notin Emitting
           /\ \E k \in 1..3 : TitlesDownTo(a)[k] /= Strip(TitlesDownTo(a)[k])
           /\ Len(SplitOn(csv_rows[RowOf(a)].section_path, PathSep)) = 3
    /\ \E a \in Addresses(json_root.sections) \ Emitting : TRUE
    /\ \E a \in Emitting : Strip(NodeAt(json_root.sections, a).title) = <<>>
    /\ Len(csv_rows) > 3

-----------------------------------------------------------------------------
(* Properties of docx_to_nested_json                                         *)

\* the items of the body that are tables: more than one row
TableItems == { i \in 1..Len(document_body) : Len(document_body[i]) > 1 }

\* the number of heading lines among the given lines, which is also the
\* node made for the last of them
RECURSIVE HeadingCount(_)
HeadingCount(textLines) ==
    IF textLines = <<>> THEN 0
    ELSE HeadingCount(Tail(textLines))
             + (IF ExtractHeadingLevel(Strip(Head(textLines))) /= 0 THEN 1 ELSE 0)

\* the node of the heading that most closely precedes item i of the body
\* (0: no heading precedes it)
HeadingBefore(i) == HeadingCount(BodyLines(SubSeq(document_body, 1, i - 1)))

\* the Markdown text of the table that is item i of the body
MarkdownOfItem(i) ==
    ConvertTableToMarkdown(ExtractTablesFromBody(<<document_body[i]>>)[1])

\* C24: docx_to_nested_json appends the Markdown text of every table to the
\* content of the heading that most closely precedes the table.
C24_TableUnderNearestHeading ==
    pc = "json_done" =>
        \A i \in TableItems :
            HeadingBefore(i) /= 0 =>
                \E k \in 1..Len(heading_nodes[HeadingBefore(i)].content) :
                    heading_nodes[HeadingBefore(i)].content[k] = MarkdownOfItem(i)

\* how often node id is attached: to the top-level list or as a subsection
Attachments(id) ==
    Cardinality({ k \in 1..Len(sections) : sections[k] = id })
        + Cardinality({ <<j, k>> \in (1..Len(heading_nodes)) \X (1..Len(heading_nodes)) :
                            /\ k <= Len(heading_nodes[j].subsections)
                            /\ heading_nodes[j].subsections[k] = id })

\* the headings before node id whose level is smaller than its own
ShallowerBefore(id) ==
    { j \in 1..(id - 1) : heading_nodes[j].level < heading_nodes[id].level }

\* C26: after every prefix of the lines the levels on heading_stack strictly
\* increase from bottom to top; every heading node is attached once, to the
\* nearest heading before it of strictly smaller level or, when there is
\* none, to the top-level sections; so the subsections of a node are of
\* strictly greater level than the node.
C26_JsonStackAndParents ==
    /\ \A k \in 1..(Len(heading_stack) - 1) :
           heading_stack[k].level < heading_stack[k + 1].level
    /\ \A id \in 1..Len(heading_nodes) :
           /\ Attachments(id) = 1
           /\ IF ShallowerBefore(id) = {}
              THEN \E k \in 1..Len(sections) : sections[k] = id
              ELSE \E k \in 1..Len(heading_nodes[MaxOf(ShallowerBefore(id))].subsections) :
                       heading_nodes[MaxOf(ShallowerBefore(id))].subsections[k] = id
           /\ \A k \in 1..Len(heading_nodes[id].subsections) :
                  heading_nodes[heading_nodes[id].subsections[k]].level
                      > heading_nodes[id].level

\* four headings were read: two are open, two were closed by the fourth, and
\* a heading has two subsections
C26_Witness ==
    /\ pc = "json"
    /\ Len(heading_nodes) = 4
    /\ Len(heading_stack) = 2
    /\ \E id \in 1..Len(heading_nodes) : Len(heading_nodes[id].subsections) = 2
    /\ \E id \in 1..Len(heading_nodes) : heading_nodes[id].level = 3

-----------------------------------------------------------------------------
(* Properties of the content chunks                                          *)

\* the heading paragraphs of the document
HeadingBlocks == {j \in 1..Len(doc) : IsParagraph(doc[j]) /\ IsHeadingParagraph(doc[j])}

\* the blocks that open a section: the heading paragraphs among hb that are
\* not passed over as captions (line 731), in document order
OpenersAmong(hb) ==
    SelectSeq([i \in 1..Len(doc) |-> i],
              LAMBDA i : i \in hb /\ ~SkipsAsCaption(Strip(doc[i].text), caption_set))

Openers == OpenersAmong(HeadingBlocks)

\* the block at which the section of the k-th of the openers ops ends
SectionEnd(ops, k) == IF k < Len(ops) THEN ops[k + 1] ELSE Len(doc) + 1

\* the non-empty texts of the paragraphs of that section that are no
\* headings (hb), in document order
SectionBody(hb, ops, k) ==
    LET inside == SelectSeq([i \in 1..Len(doc) |-> i],
                            LAMBDA i : /\ ops[k] < i /\ i < SectionEnd(ops, k)
                                       /\ IsParagraph(doc[i])
                                       /\ i \notin hb
                                       /\ Strip(doc[i].text) /= <<>>)
    IN  [n \in 1..Len(inside) |-> Strip(doc[inside[n]].text)]

\* the sections whose chunk is due: all but the one still open while the
\* main pass runs, all once the stream has ended
DueSections(ops) ==
    IF pc = "main"
    THEN Cardinality({ k \in 1..Len(ops) : ops[k] < blk }) - 1
    ELSE Len(ops)

\* the chunk of the k-th of due sections: the chunks of the sections are the
\* last ones emitted
SectionChunk(due, k) == chunks[Len(chunks) - due + k]

\* C25: in the main pass every heading that opens a section gives exactly
\* one content chunk, emitted at the next such heading or at the end of the
\* stream; the text of the chunk is the numbered title and after it every
\* non-empty paragraph that is no heading up to the next heading, in document
\* order, as the document holds them; the chunks are in the order of their
\* headings.
C25_ChunkHoldsParagraphsAsRead ==
    pc \in {"main", "tables"} =>
        LET hb == HeadingBlocks
            ops == OpenersAmong(hb)
            due == DueSections(ops)
        IN  due > 0 =>
                /\ Len(chunks) \in {due, due + 1}
                /\ \A k \in 1..due :
                       SectionChunk(due, k).chunk =
                           Join(<<heading_log[k].title>> \o SectionBody(hb, ops, k), <<"\n">>)

\* C25 as amended: the same, the text being the title and the paragraphs
\* joined by line breaks after normalize_list_symbols.
C25_ChunkHoldsNormalizedParagraphs ==
    pc \in {"main", "tables"} =>
        LET hb == HeadingBlocks
            ops == OpenersAmong(hb)
            due == DueSections(ops)
        IN  due > 0 =>
                /\ Len(chunks) \in {due, due + 1}
                /\ \A k \in 1..due :
                       SectionChunk(due, k).chunk =
                           NormalizeListSymbols(
                               Join(<<heading_log[k].title>> \o SectionBody(hb, ops, k),
                                    <<"\n">>))

\* the stream has ended on a document of two sections, the first with a
\* list item and a plain paragraph: two chunks, and the list item is not in
\* the first as the document holds it
C25_Witness ==
    /\ pc = "tables"
    /\ Len(Openers) = 2
    /\ Len(chunks) = 2
    /\ Len(SectionBody(HeadingBlocks, Openers, 1)) = 2
    /\ SectionBody(HeadingBlocks, Openers, 1)[1][1] \in Bullets
    /\ ~Contains(chunks[1].chunk, SectionBody(HeadingBlocks, Openers, 1)[1])
    /\ Contains(chunks[1].chunk, SectionBody(HeadingBlocks, Openers, 1)[2])

-----------------------------------------------------------------------------
(* Properties of the table ordinals                                          *)

\* table_index when the table pass reaches block i
LookupIndex(i) ==
    TablePass(SubSeq(doc, 1, i - 1), 1, table_position_section,
              [chunks |-> <<>>, table_index |-> 0, counter |-> <<>>]).table_index

\* the key under which the pre-pass recorded the table at block i:
\* len(table_position_section) when it reached the table
RecordedIndex(i) == Len(PrePass(SubSeq(doc, 1, i - 1), 1, <<>>, <<>>, <<>>))

\* C27: the table pass looks every table up in table_position_section under
\* the index the pre-pass recorded that table under, also when an earlier
\* table gave empty text and was skipped, so the chunk of a table has the
\* path recorded for its own position.
C27_LookupIndexIsRecordedIndex ==
    pc = "forced" =>
        \A i \in RowTableBlocks(doc) :
            /\ LookupIndex(i) = RecordedIndex(i)
            /\ TableChunk(i).section_path =
                   TableSectionPath(table_position_section, RecordedIndex(i),
                                    TableToMarkdown(doc[i].rows))

-----------------------------------------------------------------------------
(* Properties of the two binding passes together                             *)

\* the places (chunk, offset) where the reference block of picture n opens
ReferencePlaces(n) ==
    LET reference == ReferenceOf(n)
    IN  UNION {{<<k, i>> : i \in {j \in 1..Len(chunks[k].chunk) :
                                     /\ chunks[k].chunk[j] = reference[1]
                                     /\ OccursAt(chunks[k].chunk, reference, j)}} :
               k \in 1..Len(chunks)}

\* the binding pass has run
Bound == pc \in {"clean", "attach", "save", "done"}

\* C28: over the binding pass and the second binding, the reference block of
\* every extracted picture stands at most once in all the chunks, never in two
\* chunks and never twice in one; between the passes a picture is marked used
\* exactly when its block has been embedded.
C28_ImageEmbeddedAtMostOnce ==
    Bound =>
        \A n \in 1..Len(ordered_images) :
            /\ Cardinality(ReferencePlaces(n)) <= 1
            /\ pc \in {"clean", "attach"} =>
                   (ordered_images[n].used <=> Cardinality(ReferencePlaces(n)) = 1)

\* C28 witness: the pipeline has run on a document with two pictures, one
\* embedded by the binding pass and one by the second binding, and each
\* stands once in the chunks.
C28_Witness ==
    /\ pc = "done"
    /\ Len(ordered_images) >= 2
    /\ \A n \in 1..Len(ordered_images) : Cardinality(ReferencePlaces(n)) = 1
    /\ \E n \in 1..Len(ordered_images), k \in 1..Len(chunks) :
           /\ chunks[k].section_path /= <<>>
           /\ AssignedTo(ordered_images[n],
                         image_info[ordered_images[n].index].caption_index,
                         Paragraphs(doc), chunks[k].section_path)
    /\ \E n \in 1..Len(ordered_images) :
           \A k \in 1..Len(chunks) :
               \/ chunks[k].section_path = <<>>
               \/ ~AssignedTo(ordered_images[n],
                              image_info[ordered_images[n].index].caption_index,
                              Paragraphs(doc), chunks[k].section_path)

-----------------------------------------------------------------------------
(* Properties of the section paths of tables and of their sections           *)

\* the heading paragraphs the main pass took as headings (line 731 skips the
\* ones whose text is a recorded caption)
LoggedHeadings ==
    {j \in HeadingBlocks : ~SkipsAsCaption(Strip(doc[j].text), caption_set)}

\* the heading the table at block i occurs under (0: none before the table)
HeadingOver(i) ==
    IF \E j \in HeadingBlocks : j < i
    THEN MaxOf({j \in HeadingBlocks : j < i})
    ELSE 0

\* the number of chunks of the main pass: all but the table chunks
ContentChunkCount == Len(chunks) - Cardinality(RowTableBlocks(doc))

\* the content chunk emitted for the heading at block h: every heading the
\* main pass took opens a buffer that is flushed as one chunk, in order
ContentChunk(h) ==
    chunks[ContentChunkCount - Cardinality(LoggedHeadings)
               + Cardinality({j \in LoggedHeadings : j <= h})]

\* the tables with rows that stand under a heading that has a content chunk
TablesUnderHeadings ==
    {i \in RowTableBlocks(doc) : HeadingOver(i) \in LoggedHeadings}

\* C29: a table under heading H, at any nesting depth, has a chunk whose
\* section_path is the section_path of the content chunk emitted for H.
C29_TableSharesPathOfItsSection ==
    pc = "forced" =>
        \A i \in TablesUnderHeadings :
            TableChunk(i).section_path = ContentChunk(HeadingOver(i)).section_path

-----------------------------------------------------------------------------
(* Properties of the extraction                                              *)

\* the number of embedded picture references (a:blip) in the paragraphs
\* from i on
RECURSIVE ImageReferences(_, _)
ImageReferences(ps, i) ==
    IF i > Len(ps) THEN 0 ELSE ps[i].img + ImageReferences(ps, i + 1)

\* C30: the extraction gives one record per embedded picture reference, k
\* records for a paragraph with k pictures: image_info has as many records as
\* the paragraphs of the document have picture references.
C30_OneRecordPerReference ==
    pc = "prescan" => Len(image_info) = ImageReferences(Paragraphs(doc), 1)


====
